---- MODULE Spec2Model ----
(***************************************************************************)
(* Multi-cloud image uploader: the backend route handlers that issue       *)
(* presigned URLs (upload / download / delete) for AWS S3, Azure Blob and  *)
(* GCP Cloud Storage, the list routes and the direct (non-presigned)       *)
(* routes, together with the provider stores the handlers talk to.         *)
(*                                                                         *)
(* A handler is an operator from (module state, request, clock reads,      *)
(* SDK outcome) to the response it returns and the SDK calls it makes;     *)
(* the action of a handler draws the request and the SDK outcome from      *)
(* small sets, applies the operator and records request, response and      *)
(* calls.  Times are milliseconds; the clock starts at 0 instead of the    *)
(* 13-digit epoch value so that every number stays within TLC's integers.  *)
(***************************************************************************)
EXTENDS Integers, Sequences, FiniteSets, TLC

\* ---------------------------------------------------------------- bounds
MaxClock == 1      \* the clock runs over 0..MaxClock milliseconds
MaxDrift == 1      \* most the clock advances between two reads in one handler
MaxLog == 2        \* most grants kept in the issuance history
MaxRedeem == 2     \* most redemptions kept in the redemption history
MaxTimers == 1     \* most reset timers of the upload page pending at once
MaxDeletes == 2    \* most deletes of the files page in flight at once
MaxClicks == 4     \* most clicks and card loads on the files page in a behaviour
MaxSaved == 3      \* most calls of FileStorage.saveFile in a behaviour
MaxFiles == 41     \* most objects a bucket holds when the files page is paged through

\* ------------------------------------------------------ environment names
AwsEnv == {"AWS_REGION", "AWS_ACCESS_KEY_ID", "AWS_SECRET_ACCESS_KEY", "AWS_S3_BUCKET"}

AzureEnv ==
  {"AZURE_STORAGE_ACCOUNT_NAME", "AZURE_STORAGE_ACCOUNT_KEY", "AZURE_STORAGE_CONTAINER_NAME"}

AzureRouteEnv ==
  {"AZURE_STORAGE_ACCOUNT_NAME", "AZURE_STORAGE_ACCOUNT_KEY", "AZURE_CONTAINER_NAME"}

GcpEnv == {"GOOGLE_CLOUD_PROJECT", "GOOGLE_APPLICATION_CREDENTIALS", "GCP_STORAGE_BUCKET"}

GcpRouteEnv == {"GCP_BUCKET_NAME", "GOOGLE_APPLICATION_CREDENTIALS"}

EnvVars == AwsEnv \cup AzureEnv \cup AzureRouteEnv \cup GcpEnv \cup GcpRouteEnv

Providers == {"aws", "azure", "gcp"}

\* One entry per route module (file) that owns a provider client.
AwsModules == {"aws", "aws-post", "aws-get", "aws-delete", "aws-list"}
AzureModules == {"azure", "azure-post", "azure-get", "azure-delete", "azure-list"}
GcpModules == {"gcp", "gcp-post", "gcp-get", "gcp-delete", "gcp-list"}
Modules == AwsModules \cup AzureModules \cup GcpModules

ProviderOf(m) ==
  IF m \in AwsModules THEN "aws" ELSE IF m \in AzureModules THEN "azure" ELSE "gcp"

\* The variables validateAwsEnv / validateAzureEnv / validateGcpEnv of module m
\* insist on: every one of them must be set and non-empty.
validateEnv(m) ==
  CASE m \in AwsModules -> AwsEnv
    [] m = "azure" -> AzureRouteEnv
    [] m \in AzureModules \ {"azure"} -> AzureEnv
    [] m = "gcp" -> GcpRouteEnv
    [] OTHER -> GcpEnv

VARIABLES
  env,         \* the environment variables that are set (non-empty) at startup
  client,      \* client[m]: module m's client handle (s3 / blobServiceClient / storage) is set
  bucketName,  \* bucketName[m]: module m's bucketName / containerName variable is set
  now,         \* the clock, in milliseconds
  objects,     \* objects[p]: the objects held by provider p, in the provider's listing order
  req,         \* the request handled last
  resp,        \* the response returned for it
  calls,       \* the provider SDK calls its handler made, in order
  parsed,      \* whether its handler read the request body
  readAt,      \* the clock values its handler read for the object key and for the expiry
  log,         \* history of grants issued (successful issuances), oldest first
  redeemed,    \* history of redemptions at the provider: grant (index into log) and outcome
  uploader,    \* the upload page (ImageUploader): its React state and the upload in progress
  filesPage,   \* the files page (FilesPage): its React state and the requests in flight
  storage,     \* FileStorage: the list kept in localStorage, and the call made last
  inFlight     \* the direct GCP DELETE requests being handled at the same time

\* The providers whose uploads the callers of FileStorage record.
StoredProviders == {"aws-s3", "azure-blob"}

\* The pages of the frontend and what the browser keeps for them, and the
\* handler runs that overlap in time: what a handler run taken as one step
\* leaves alone.
pages == <<uploader, filesPage, storage, inFlight>>

\* What an action of the upload page, and of the files page, leaves alone in
\* the browser.
besideUploader == <<filesPage, storage, inFlight>>
besideFilesPage == <<uploader, storage, inFlight>>

vars ==
  <<env, client, bucketName, now, objects, req, resp, calls, parsed, readAt, log, redeemed,
    uploader, filesPage, storage, inFlight>>

\* ------------------------------------------------------------- requests
FileNames == {"cat.jpg", "missing.png"}

allowedTypes == {"image/jpeg", "image/png", "image/gif", "image/webp", "image/svg+xml"}

FileTypes == {"image/jpeg", "application/pdf"}

maxSize == 10 * 1024 * 1024

FileSizes == {maxSize, maxSize + 1}

\* A JSON body: `json` tells whether req.json() yields an object at all; `has` is
\* the set of fields the object carries; a field that is absent keeps the neutral
\* value ("" or 0) so that equal bodies are equal records.  fileName may be
\* present and empty; fileType and fileSize, when present, are not.
Bodies ==
  { b \in [json : BOOLEAN, has : SUBSET {"fileName", "fileType", "fileSize"},
           fileName : FileNames \cup {""}, fileType : FileTypes \cup {""},
           fileSize : FileSizes \cup {0}] :
      /\ (~b.json => b.has = {})
      /\ ("fileName" \notin b.has => b.fileName = "")
      /\ ("fileType" \notin b.has <=> b.fileType = "")
      /\ ("fileSize" \notin b.has <=> b.fileSize = 0) }

\* Bodies of the upload issuance requests: { fileName, fileType, fileSize }.
UploadBodies == { b \in Bodies : b.fileName # "missing.png" }

\* Bodies of the download and delete issuance requests: { fileName }.
NameBodies == { b \in Bodies : b.has \subseteq {"fileName"} }

NoBody == [json |-> FALSE, has |-> {}, fileName |-> "", fileType |-> "", fileSize |-> 0]

\* Variant of Truthy: tests only that the field is present (`fileName !== undefined`),
\* so an empty string passes.
TruthyPresentOnly(b, f) == f \in b.has

\* JavaScript truthiness of a body field: present and neither "" nor 0.
Truthy(b, f) == f \in b.has /\ (IF f = "fileSize" THEN b.fileSize # 0 ELSE b[f] # "")

\* ------------------------------------------------------------ responses
\* A provider SDK call: the SDK function (api), the command / permission / action
\* it names, the object key, and what else the call passes.
NoCall ==
  [provider |-> "", api |-> "", action |-> "", key |-> "", contentType |-> "",
   size |-> 0, expiresIn |-> 0, startsOn |-> 0, expires |-> 0]

NoUrl == [call |-> NoCall, date |-> 0]

BlankBody ==
  [error |-> "", details |-> "", presignedUrl |-> NoUrl, fileName |-> "",
   expiresIn |-> 0, message |-> "", files |-> <<>>]

\* The CORS headers of a response: "" stands for a header that is not set.
NoHeaders ==
  [allowOrigin |-> "", allowMethods |-> "", allowHeaders |-> "",
   allowCredentials |-> "", maxAge |-> ""]

\* NextResponse.json(body, { status }): `fields` are the keys the JSON body has.
Json(body, status) ==
  [status |-> status, fields |-> DOMAIN body, headers |-> NoHeaders,
   error |-> (body @@ BlankBody).error,
   details |-> (body @@ BlankBody).details,
   presignedUrl |-> (body @@ BlankBody).presignedUrl,
   fileName |-> (body @@ BlankBody).fileName,
   expiresIn |-> (body @@ BlankBody).expiresIn,
   message |-> (body @@ BlankBody).message,
   files |-> (body @@ BlankBody).files]

NoResp == Json([message |-> ""], 0)

\* ------------------------------------------------------------------ CORS
\* corsConfig.allowedOrigins
allowedOrigins ==
  {"http://localhost:3000", "https://localhost:3000", "http://localhost:3001",
   "https://localhost:3001", "http://127.0.0.1:3000", "https://127.0.0.1:3000",
   "http://127.0.0.1:3001", "https://127.0.0.1:3001"}

\* corsConfig.allowedMethods.join(', ') and corsConfig.allowedHeaders.join(', ')
allowedMethods == "GET, POST, PUT, DELETE, OPTIONS"
allowedHeaders == "Content-Type, Authorization, X-Requested-With, Accept, Origin"

\* The Origin header of a request: "" stands for an absent (null) or empty one.
Origins == {"", "http://localhost:3000", "https://evil.example"}

\* A variant of addCorsHeaders that echoes whatever origin the request names.
addCorsHeadersEchoing(response, origin) ==
  [response EXCEPT !.headers =
     [@ EXCEPT !.allowOrigin = origin,
               !.allowMethods = allowedMethods,
               !.allowHeaders = allowedHeaders,
               !.allowCredentials = "true"]]

\* addCorsHeaders(response, request), origin being the request's Origin header.
addCorsHeaders(response, origin) ==
  [response EXCEPT !.headers =
     [@ EXCEPT !.allowOrigin = IF origin # "" /\ origin \in allowedOrigins THEN origin ELSE @,
               !.allowMethods = allowedMethods,
               !.allowHeaders = allowedHeaders,
               !.allowCredentials = "true"]]

\* corsMiddleware(request): the preflight response for an OPTIONS request, and
\* null (no response: NoResp) for any other method.
corsMiddleware(method, origin) ==
  IF method = "OPTIONS"
  THEN [NoResp EXCEPT !.status = 200, !.fields = {},
          !.headers = [allowOrigin |-> IF origin # "" /\ origin \in allowedOrigins
                                       THEN origin ELSE "",
                       allowMethods |-> allowedMethods,
                       allowHeaders |-> allowedHeaders,
                       allowCredentials |-> "true",
                       maxAge |-> "86400"]]
  ELSE NoResp

\* What a handler run amounts to: the response, the SDK calls made, whether the
\* body was read, and the clock values read: `stamp` by Date.now() for the object
\* key, `expiry` by the read the expiry is computed from.
Out(r, c, p, t, te) ==
  [resp |-> r, calls |-> c, parsed |-> p, readAt |-> [stamp |-> t, expiry |-> te]]

\* err instanceof Error ? err.message : String(err)
ParseError == "Unexpected end of JSON input"
SdkError == "provider call failed"

\* The signer of the provider SDK: the URL it returns is determined by what it is
\* asked to sign and by the instant of signing.
SignedUrl(call, t) == [call |-> call, date |-> t]

\* Variant of uniqueFileName: the timestamp prefix is dropped.
uniqueFileNameNoStamp(timestamp, fileName) == fileName

\* `${timestamp}-${fileName}`
uniqueFileName(timestamp, fileName) == ToString(timestamp) \o "-" \o fileName

\* An object as the provider holds it: key, byte size, time of last change and
\* content type.
Object(name, size, t, type) ==
  [name |-> name, size |-> size, lastModified |-> t, contentType |-> type]

\* ------------------------------------------------ the provider's store
\* What the storage service does with a data-plane call, given the objects objs
\* it holds.  Exists(objs, k): an object is stored under key k.
Exists(objs, k) == \E i \in 1 .. Len(objs) : objs[i].name = k

Remove(objs, k) == SelectSeq(objs, LAMBDA o : o.name # k)

\* Writing a key replaces the object stored under it (last writer wins).
Put(objs, o) == Append(Remove(objs, o.name), o)

\* The storage operation a call (or the redemption of a signed URL) asks for.
\* Signing is computed from the credentials and asks nothing of the store.
Operation(c) ==
  CASE c.api \in {"getSignedUrl", "generateBlobSASQueryParameters"} -> "sign"
    [] c.action \in {"PutObjectCommand", "w", "write", "uploadData", "save"} -> "put"
    [] c.action \in {"GetObjectCommand", "r", "read", "download", "getMetadata"} -> "get"
    [] c.action \in {"DeleteObjectCommand", "d", "delete"} -> "delete"
    [] c.action = "exists" -> "probe"
    [] OTHER -> "list"

\* Whether the service accepts the operation: reading needs the object; deleting
\* a missing object is a no-op success on S3 and an error on Azure and GCP.
Accepts(objs, c) ==
  CASE Operation(c) = "get" -> Exists(objs, c.key)
    [] Operation(c) = "delete" -> (c.provider = "aws" \/ Exists(objs, c.key))
    [] OTHER -> TRUE

\* The store after the operation has been carried out at time t.
Applied(objs, c, t) ==
  CASE Operation(c) = "put" -> Put(objs, Object(c.key, c.size, t, c.contentType))
    [] Operation(c) = "delete" -> Remove(objs, c.key)
    [] OTHER -> objs

\* The store after the calls of a handler run have been carried out, in order.
RECURSIVE AppliedAll(_, _, _)
AppliedAll(objs, cs, t) ==
  IF cs = << >> THEN objs ELSE AppliedAll(Applied(objs, Head(cs), t), Tail(cs), t)

\* ------------------------------------------------- AWS presigned issuance
AwsNotInitialized == "AWS client not initialized. Please check environment variables."

\* aws-post: POST, presigned upload URL.
AwsPostPOST(b, t, ok) ==
  IF ~client["aws-post"] \/ ~bucketName["aws-post"]
  THEN Out(Json([error |-> AwsNotInitialized], 500), <<>>, FALSE, t, t)
  ELSE IF ~b.json
  THEN Out(Json([error |-> "Failed to generate presigned upload URL",
                 details |-> ParseError], 500), <<>>, TRUE, t, t)
  ELSE IF ~Truthy(b, "fileName") \/ ~Truthy(b, "fileType")
  THEN Out(Json([error |-> "Missing required fields: fileName and fileType are required"],
                400), <<>>, TRUE, t, t)
  ELSE IF b.fileType \notin allowedTypes
  THEN Out(Json([error |-> "Invalid file type. Only image files are allowed."], 400),
           <<>>, TRUE, t, t)
  ELSE IF Truthy(b, "fileSize") /\ b.fileSize > maxSize
  THEN Out(Json([error |-> "File size too large. Maximum size is 10MB."], 400),
           <<>>, TRUE, t, t)
  ELSE LET command == [NoCall EXCEPT !.provider = "aws", !.api = "getSignedUrl",
                                     !.action = "PutObjectCommand",
                                     !.key = uniqueFileName(t, b.fileName),
                                     !.contentType = b.fileType,
                                     !.expiresIn = 3600]
       IN IF ~ok
          THEN Out(Json([error |-> "Failed to generate presigned upload URL",
                         details |-> SdkError], 500), <<command>>, TRUE, t, t)
          ELSE Out(Json([presignedUrl |-> SignedUrl(command, t),
                         fileName |-> uniqueFileName(t, b.fileName),
                         expiresIn |-> 3600,
                         message |-> "Presigned upload URL generated successfully"], 200),
                   <<command>>, TRUE, t, t)

\* Variant of AwsGetPOST: the catch branch answers without `details`.
AwsGetPOSTNoDetails(b, t, ok) ==
  IF ~client["aws-get"] \/ ~bucketName["aws-get"]
  THEN Out(Json([error |-> AwsNotInitialized], 500), <<>>, FALSE, t, t)
  ELSE IF ~b.json
  THEN Out(Json([error |-> "Failed to generate presigned download URL"], 500),
           <<>>, TRUE, t, t)
  ELSE IF ~Truthy(b, "fileName")
  THEN Out(Json([error |-> "Missing required field: fileName is required"], 400),
           <<>>, TRUE, t, t)
  ELSE LET command == [NoCall EXCEPT !.provider = "aws", !.api = "getSignedUrl",
                                     !.action = "GetObjectCommand",
                                     !.key = b.fileName,
                                     !.expiresIn = 900]
       IN IF ~ok
          THEN Out(Json([error |-> "Failed to generate presigned download URL"], 500),
                   <<command>>, TRUE, t, t)
          ELSE Out(Json([presignedUrl |-> SignedUrl(command, t),
                         fileName |-> b.fileName,
                         expiresIn |-> 900,
                         message |-> "Presigned download URL generated successfully"], 200),
                   <<command>>, TRUE, t, t)

\* aws-get: POST, presigned download URL.
AwsGetPOST(b, t, ok) ==
  IF ~client["aws-get"] \/ ~bucketName["aws-get"]
  THEN Out(Json([error |-> AwsNotInitialized], 500), <<>>, FALSE, t, t)
  ELSE IF ~b.json
  THEN Out(Json([error |-> "Failed to generate presigned download URL",
                 details |-> ParseError], 500), <<>>, TRUE, t, t)
  ELSE IF ~Truthy(b, "fileName")
  THEN Out(Json([error |-> "Missing required field: fileName is required"], 400),
           <<>>, TRUE, t, t)
  ELSE LET command == [NoCall EXCEPT !.provider = "aws", !.api = "getSignedUrl",
                                     !.action = "GetObjectCommand",
                                     !.key = b.fileName,
                                     !.expiresIn = 900]
       IN IF ~ok
          THEN Out(Json([error |-> "Failed to generate presigned download URL",
                         details |-> SdkError], 500), <<command>>, TRUE, t, t)
          ELSE Out(Json([presignedUrl |-> SignedUrl(command, t),
                         fileName |-> b.fileName,
                         expiresIn |-> 900,
                         message |-> "Presigned download URL generated successfully"], 200),
                   <<command>>, TRUE, t, t)

\* Variant of AwsDeletePOST: the command is signed for an hour while the response
\* announces five minutes.
AwsDeletePOSTHourLong(b, t, ok) ==
  IF ~client["aws-delete"] \/ ~bucketName["aws-delete"]
  THEN Out(Json([error |-> AwsNotInitialized], 500), <<>>, FALSE, t, t)
  ELSE IF ~b.json
  THEN Out(Json([error |-> "Failed to generate presigned delete URL",
                 details |-> ParseError], 500), <<>>, TRUE, t, t)
  ELSE IF ~Truthy(b, "fileName")
  THEN Out(Json([error |-> "Missing required field: fileName is required"], 400),
           <<>>, TRUE, t, t)
  ELSE LET command == [NoCall EXCEPT !.provider = "aws", !.api = "getSignedUrl",
                                     !.action = "DeleteObjectCommand",
                                     !.key = b.fileName,
                                     !.expiresIn = 3600]
       IN IF ~ok
          THEN Out(Json([error |-> "Failed to generate presigned delete URL",
                         details |-> SdkError], 500), <<command>>, TRUE, t, t)
          ELSE Out(Json([presignedUrl |-> SignedUrl(command, t),
                         fileName |-> b.fileName,
                         expiresIn |-> 300,
                         message |-> "Presigned delete URL generated successfully"], 200),
                   <<command>>, TRUE, t, t)

\* aws-delete: POST, presigned delete URL.
AwsDeletePOST(b, t, ok) ==
  IF ~client["aws-delete"] \/ ~bucketName["aws-delete"]
  THEN Out(Json([error |-> AwsNotInitialized], 500), <<>>, FALSE, t, t)
  ELSE IF ~b.json
  THEN Out(Json([error |-> "Failed to generate presigned delete URL",
                 details |-> ParseError], 500), <<>>, TRUE, t, t)
  ELSE IF ~Truthy(b, "fileName")
  THEN Out(Json([error |-> "Missing required field: fileName is required"], 400),
           <<>>, TRUE, t, t)
  ELSE LET command == [NoCall EXCEPT !.provider = "aws", !.api = "getSignedUrl",
                                     !.action = "DeleteObjectCommand",
                                     !.key = b.fileName,
                                     !.expiresIn = 300]
       IN IF ~ok
          THEN Out(Json([error |-> "Failed to generate presigned delete URL",
                         details |-> SdkError], 500), <<command>>, TRUE, t, t)
          ELSE Out(Json([presignedUrl |-> SignedUrl(command, t),
                         fileName |-> b.fileName,
                         expiresIn |-> 300,
                         message |-> "Presigned delete URL generated successfully"], 200),
                   <<command>>, TRUE, t, t)

\* ----------------------------------------------- Azure presigned issuance
AzureNotInitialized ==
  "Azure Blob Service client not initialized. Please check environment variables."

\* generateBlobSASQueryParameters(...).toString() appended to blobClient.url: the
\* URL is determined by the SAS values, which carry the start date.
sasUrl(sas) == SignedUrl(sas, sas.startsOn)

\* Variant of AzurePostPOST: the SAS is minted for the client's file name while
\* the response returns the timestamped name.
AzurePostPOSTRawKey(b, t, t1, t2, ok) ==
  IF ~client["azure-post"] \/ ~bucketName["azure-post"]
  THEN Out(Json([error |-> AzureNotInitialized], 500), <<>>, FALSE, t, t)
  ELSE IF ~b.json
  THEN Out(Json([error |-> "Failed to generate presigned upload URL",
                 details |-> ParseError], 500), <<>>, TRUE, t, t)
  ELSE IF ~Truthy(b, "fileName") \/ ~Truthy(b, "fileType")
  THEN Out(Json([error |-> "Missing required fields: fileName and fileType are required"],
                400), <<>>, TRUE, t, t)
  ELSE LET sas == [NoCall EXCEPT !.provider = "azure",
                                 !.api = "generateBlobSASQueryParameters",
                                 !.action = "w",
                                 !.key = b.fileName,
                                 !.startsOn = t1,
                                 !.expires = t2 + 60 * 60 * 1000]
       IN IF ~ok
          THEN Out(Json([error |-> "Failed to generate presigned upload URL",
                         details |-> SdkError], 500), <<sas>>, TRUE, t, t2)
          ELSE Out(Json([presignedUrl |-> sasUrl(sas),
                         fileName |-> uniqueFileName(t, b.fileName),
                         expiresIn |-> 3600,
                         message |-> "Presigned upload URL generated successfully"], 200),
                   <<sas>>, TRUE, t, t2)

\* azure-post: POST, presigned upload URL.  t is the clock when the handler is
\* entered (read by Date.now() for the key), t1 the clock read by the new Date()
\* of startsOn, t2 the clock read by the new Date() of expiresOn.
AzurePostPOST(b, t, t1, t2, ok) ==
  IF ~client["azure-post"] \/ ~bucketName["azure-post"]
  THEN Out(Json([error |-> AzureNotInitialized], 500), <<>>, FALSE, t, t)
  ELSE IF ~b.json
  THEN Out(Json([error |-> "Failed to generate presigned upload URL",
                 details |-> ParseError], 500), <<>>, TRUE, t, t)
  ELSE IF ~Truthy(b, "fileName") \/ ~Truthy(b, "fileType")
  THEN Out(Json([error |-> "Missing required fields: fileName and fileType are required"],
                400), <<>>, TRUE, t, t)
  ELSE LET sas == [NoCall EXCEPT !.provider = "azure",
                                 !.api = "generateBlobSASQueryParameters",
                                 !.action = "w",
                                 !.key = uniqueFileName(t, b.fileName),
                                 !.startsOn = t1,
                                 !.expires = t2 + 60 * 60 * 1000]
       IN IF ~ok
          THEN Out(Json([error |-> "Failed to generate presigned upload URL",
                         details |-> SdkError], 500), <<sas>>, TRUE, t, t2)
          ELSE Out(Json([presignedUrl |-> sasUrl(sas),
                         fileName |-> uniqueFileName(t, b.fileName),
                         expiresIn |-> 3600,
                         message |-> "Presigned upload URL generated successfully"], 200),
                   <<sas>>, TRUE, t, t2)

\* azure-get: POST, presigned download URL.
AzureGetPOST(b, t, t1, t2, ok) ==
  IF ~client["azure-get"] \/ ~bucketName["azure-get"]
  THEN Out(Json([error |-> AzureNotInitialized], 500), <<>>, FALSE, t, t)
  ELSE IF ~b.json
  THEN Out(Json([error |-> "Failed to generate presigned download URL",
                 details |-> ParseError], 500), <<>>, TRUE, t, t)
  ELSE IF ~Truthy(b, "fileName")
  THEN Out(Json([error |-> "Missing required field: fileName is required"], 400),
           <<>>, TRUE, t, t)
  ELSE LET sas == [NoCall EXCEPT !.provider = "azure",
                                 !.api = "generateBlobSASQueryParameters",
                                 !.action = "r",
                                 !.key = b.fileName,
                                 !.startsOn = t1,
                                 !.expires = t2 + 15 * 60 * 1000]
       IN IF ~ok
          THEN Out(Json([error |-> "Failed to generate presigned download URL",
                         details |-> SdkError], 500), <<sas>>, TRUE, t, t2)
          ELSE Out(Json([presignedUrl |-> sasUrl(sas),
                         fileName |-> b.fileName,
                         expiresIn |-> 900,
                         message |-> "Presigned download URL generated successfully"], 200),
                   <<sas>>, TRUE, t, t2)

\* Variant of AzureDeletePOST: the body is read and validated before the
\* usability of the client is checked.
AzureDeletePOSTValidatesFirst(b, t, t1, t2, ok) ==
  IF ~b.json
  THEN Out(Json([error |-> "Failed to generate presigned delete URL",
                 details |-> ParseError], 500), <<>>, TRUE, t, t)
  ELSE IF ~Truthy(b, "fileName")
  THEN Out(Json([error |-> "Missing required field: fileName is required"], 400),
           <<>>, TRUE, t, t)
  ELSE IF ~client["azure-delete"] \/ ~bucketName["azure-delete"]
  THEN Out(Json([error |-> AzureNotInitialized], 500), <<>>, TRUE, t, t)
  ELSE LET sas == [NoCall EXCEPT !.provider = "azure",
                                 !.api = "generateBlobSASQueryParameters",
                                 !.action = "d",
                                 !.key = b.fileName,
                                 !.startsOn = t1,
                                 !.expires = t2 + 5 * 60 * 1000]
       IN IF ~ok
          THEN Out(Json([error |-> "Failed to generate presigned delete URL",
                         details |-> SdkError], 500), <<sas>>, TRUE, t, t2)
          ELSE Out(Json([presignedUrl |-> sasUrl(sas),
                         fileName |-> b.fileName,
                         expiresIn |-> 300,
                         message |-> "Presigned delete URL generated successfully"], 200),
                   <<sas>>, TRUE, t, t2)

\* azure-delete: POST, presigned delete URL.
AzureDeletePOST(b, t, t1, t2, ok) ==
  IF ~client["azure-delete"] \/ ~bucketName["azure-delete"]
  THEN Out(Json([error |-> AzureNotInitialized], 500), <<>>, FALSE, t, t)
  ELSE IF ~b.json
  THEN Out(Json([error |-> "Failed to generate presigned delete URL",
                 details |-> ParseError], 500), <<>>, TRUE, t, t)
  ELSE IF ~Truthy(b, "fileName")
  THEN Out(Json([error |-> "Missing required field: fileName is required"], 400),
           <<>>, TRUE, t, t)
  ELSE LET sas == [NoCall EXCEPT !.provider = "azure",
                                 !.api = "generateBlobSASQueryParameters",
                                 !.action = "d",
                                 !.key = b.fileName,
                                 !.startsOn = t1,
                                 !.expires = t2 + 5 * 60 * 1000]
       IN IF ~ok
          THEN Out(Json([error |-> "Failed to generate presigned delete URL",
                         details |-> SdkError], 500), <<sas>>, TRUE, t, t2)
          ELSE Out(Json([presignedUrl |-> sasUrl(sas),
                         fileName |-> b.fileName,
                         expiresIn |-> 300,
                         message |-> "Presigned delete URL generated successfully"], 200),
                   <<sas>>, TRUE, t, t2)

\* ------------------------------------------------- GCP presigned issuance
GcpNotInitialized ==
  "GCP Storage client not initialized. Please check environment variables."

\* gcp-post: POST, presigned upload URL.
GcpPostPOST(b, t, ok) ==
  IF ~client["gcp-post"] \/ ~bucketName["gcp-post"]
  THEN Out(Json([error |-> GcpNotInitialized], 500), <<>>, FALSE, t, t)
  ELSE IF ~b.json
  THEN Out(Json([error |-> "Failed to generate presigned upload URL",
                 details |-> ParseError], 500), <<>>, TRUE, t, t)
  ELSE IF ~Truthy(b, "fileName") \/ ~Truthy(b, "fileType")
  THEN Out(Json([error |-> "Missing required fields: fileName and fileType are required"],
                400), <<>>, TRUE, t, t)
  ELSE LET options == [NoCall EXCEPT !.provider = "gcp", !.api = "getSignedUrl",
                                     !.action = "write",
                                     !.key = uniqueFileName(t, b.fileName),
                                     !.contentType = b.fileType,
                                     !.expires = t + 60 * 60 * 1000]
       IN IF ~ok
          THEN Out(Json([error |-> "Failed to generate presigned upload URL",
                         details |-> SdkError], 500), <<options>>, TRUE, t, t)
          ELSE Out(Json([presignedUrl |-> SignedUrl(options, t),
                         fileName |-> uniqueFileName(t, b.fileName),
                         expiresIn |-> 3600,
                         message |-> "Presigned upload URL generated successfully"], 200),
                   <<options>>, TRUE, t, t)

\* A variant of the GCP download issuance that signs for the 'write' action.
GcpGetPOSTWritable(b, t, ok) ==
  IF ~client["gcp-get"] \/ ~bucketName["gcp-get"]
  THEN Out(Json([error |-> GcpNotInitialized], 500), <<>>, FALSE, t, t)
  ELSE IF ~b.json
  THEN Out(Json([error |-> "Failed to generate presigned download URL",
                 details |-> ParseError], 500), <<>>, TRUE, t, t)
  ELSE IF ~Truthy(b, "fileName")
  THEN Out(Json([error |-> "Missing required field: fileName is required"], 400),
           <<>>, TRUE, t, t)
  ELSE LET options == [NoCall EXCEPT !.provider = "gcp", !.api = "getSignedUrl",
                                     !.action = "write",
                                     !.key = b.fileName,
                                     !.expires = t + 15 * 60 * 1000]
       IN IF ~ok
          THEN Out(Json([error |-> "Failed to generate presigned download URL",
                         details |-> SdkError], 500), <<options>>, TRUE, t, t)
          ELSE Out(Json([presignedUrl |-> SignedUrl(options, t),
                         fileName |-> b.fileName,
                         expiresIn |-> 900,
                         message |-> "Presigned download URL generated successfully"], 200),
                   <<options>>, TRUE, t, t)

\* gcp-get: POST, presigned download URL.
GcpGetPOST(b, t, ok) ==
  IF ~client["gcp-get"] \/ ~bucketName["gcp-get"]
  THEN Out(Json([error |-> GcpNotInitialized], 500), <<>>, FALSE, t, t)
  ELSE IF ~b.json
  THEN Out(Json([error |-> "Failed to generate presigned download URL",
                 details |-> ParseError], 500), <<>>, TRUE, t, t)
  ELSE IF ~Truthy(b, "fileName")
  THEN Out(Json([error |-> "Missing required field: fileName is required"], 400),
           <<>>, TRUE, t, t)
  ELSE LET options == [NoCall EXCEPT !.provider = "gcp", !.api = "getSignedUrl",
                                     !.action = "read",
                                     !.key = b.fileName,
                                     !.expires = t + 15 * 60 * 1000]
       IN IF ~ok
          THEN Out(Json([error |-> "Failed to generate presigned download URL",
                         details |-> SdkError], 500), <<options>>, TRUE, t, t)
          ELSE Out(Json([presignedUrl |-> SignedUrl(options, t),
                         fileName |-> b.fileName,
                         expiresIn |-> 900,
                         message |-> "Presigned download URL generated successfully"], 200),
                   <<options>>, TRUE, t, t)

\* Variant of GcpDeletePOST: the handler asks the bucket whether the object
\* exists and answers 404 when it does not.
GcpDeletePOSTProbing(b, t, ok) ==
  IF ~client["gcp-delete"] \/ ~bucketName["gcp-delete"]
  THEN Out(Json([error |-> GcpNotInitialized], 500), <<>>, FALSE, t, t)
  ELSE IF ~b.json
  THEN Out(Json([error |-> "Failed to generate presigned delete URL",
                 details |-> ParseError], 500), <<>>, TRUE, t, t)
  ELSE IF ~Truthy(b, "fileName")
  THEN Out(Json([error |-> "Missing required field: fileName is required"], 400),
           <<>>, TRUE, t, t)
  ELSE LET exists == [NoCall EXCEPT !.provider = "gcp", !.api = "exists",
                                    !.action = "exists", !.key = b.fileName]
           options == [NoCall EXCEPT !.provider = "gcp", !.api = "getSignedUrl",
                                     !.action = "delete",
                                     !.key = b.fileName,
                                     !.expires = t + 5 * 60 * 1000]
       IN IF ~Exists(objects["gcp"], b.fileName)
          THEN Out(Json([error |-> "File not found"], 404), <<exists>>, TRUE, t, t)
          ELSE IF ~ok
          THEN Out(Json([error |-> "Failed to generate presigned delete URL",
                         details |-> SdkError], 500), <<exists, options>>, TRUE, t, t)
          ELSE Out(Json([presignedUrl |-> SignedUrl(options, t),
                         fileName |-> b.fileName,
                         expiresIn |-> 300,
                         message |-> "Presigned delete URL generated successfully"], 200),
                   <<exists, options>>, TRUE, t, t)

\* Variant of GcpDeletePOST: the handler deletes the object itself (file.delete())
\* before it signs the URL.
GcpDeletePOSTDeletes(b, t, ok) ==
  IF ~client["gcp-delete"] \/ ~bucketName["gcp-delete"]
  THEN Out(Json([error |-> GcpNotInitialized], 500), <<>>, FALSE, t, t)
  ELSE IF ~b.json
  THEN Out(Json([error |-> "Failed to generate presigned delete URL",
                 details |-> ParseError], 500), <<>>, TRUE, t, t)
  ELSE IF ~Truthy(b, "fileName")
  THEN Out(Json([error |-> "Missing required field: fileName is required"], 400),
           <<>>, TRUE, t, t)
  ELSE LET delete == [NoCall EXCEPT !.provider = "gcp", !.api = "delete",
                                    !.action = "delete", !.key = b.fileName]
           options == [NoCall EXCEPT !.provider = "gcp", !.api = "getSignedUrl",
                                     !.action = "delete",
                                     !.key = b.fileName,
                                     !.expires = t + 5 * 60 * 1000]
       IN IF ~ok
          THEN Out(Json([error |-> "Failed to generate presigned delete URL",
                         details |-> SdkError], 500), <<delete, options>>, TRUE, t, t)
          ELSE Out(Json([presignedUrl |-> SignedUrl(options, t),
                         fileName |-> b.fileName,
                         expiresIn |-> 300,
                         message |-> "Presigned delete URL generated successfully"], 200),
                   <<delete, options>>, TRUE, t, t)

\* gcp-delete: POST, presigned delete URL.
GcpDeletePOST(b, t, ok) ==
  IF ~client["gcp-delete"] \/ ~bucketName["gcp-delete"]
  THEN Out(Json([error |-> GcpNotInitialized], 500), <<>>, FALSE, t, t)
  ELSE IF ~b.json
  THEN Out(Json([error |-> "Failed to generate presigned delete URL",
                 details |-> ParseError], 500), <<>>, TRUE, t, t)
  ELSE IF ~Truthy(b, "fileName")
  THEN Out(Json([error |-> "Missing required field: fileName is required"], 400),
           <<>>, TRUE, t, t)
  ELSE LET options == [NoCall EXCEPT !.provider = "gcp", !.api = "getSignedUrl",
                                     !.action = "delete",
                                     !.key = b.fileName,
                                     !.expires = t + 5 * 60 * 1000]
       IN IF ~ok
          THEN Out(Json([error |-> "Failed to generate presigned delete URL",
                         details |-> SdkError], 500), <<options>>, TRUE, t, t)
          ELSE Out(Json([presignedUrl |-> SignedUrl(options, t),
                         fileName |-> b.fileName,
                         expiresIn |-> 300,
                         message |-> "Presigned delete URL generated successfully"], 200),
                   <<options>>, TRUE, t, t)

\* ------------------------------------------ upload-completion notices
\* aws-response: POST.  The notice is logged; no provider is involved and the
\* module has no client to initialise.
AwsResponsePOST(b, t) ==
  IF ~b.json
  THEN Out(Json([error |-> "Failed to record upload completion",
                 details |-> ParseError], 500), <<>>, TRUE, t, t)
  ELSE IF ~Truthy(b, "fileName")
  THEN Out(Json([error |-> "Missing required field: fileName is required"], 400),
           <<>>, TRUE, t, t)
  ELSE Out(Json([message |-> "Upload completion recorded successfully",
                 fileName |-> b.fileName,
                 recordedAt |-> t], 200), <<>>, TRUE, t, t)

\* gcp-response: POST.
GcpResponsePOST(b, t) ==
  IF ~b.json
  THEN Out(Json([error |-> "Failed to record upload completion",
                 details |-> ParseError], 500), <<>>, TRUE, t, t)
  ELSE IF ~Truthy(b, "fileName")
  THEN Out(Json([error |-> "Missing required field: fileName is required"], 400),
           <<>>, TRUE, t, t)
  ELSE Out(Json([message |-> "GCP upload completion recorded successfully",
                 fileName |-> b.fileName,
                 recordedAt |-> t], 200), <<>>, TRUE, t, t)

\* ------------------------------------------------------------- start-up
\* The module-level initialisation of route module m under environment e: the
\* try block assigns the bucket name and the client only if validate...Env does
\* not throw; azure/route.ts keeps no container-name variable.
initModule(m, e) ==
  IF validateEnv(m) \subseteq e
  THEN [client |-> TRUE, bucketName |-> (m # "azure")]
  ELSE [client |-> FALSE, bucketName |-> FALSE]

\* The multipart form of a direct upload: `form` tells whether req.formData()
\* succeeds, `present` whether it carries a 'file' entry.
NoFile == [form |-> FALSE, present |-> FALSE, name |-> "", type |-> "", size |-> 0]

Files ==
  {NoFile, [NoFile EXCEPT !.form = TRUE],
   [form |-> TRUE, present |-> TRUE, name |-> "missing.png", type |-> "image/jpeg",
    size |-> 1048576]}

\* The 'key' query parameter: "" stands for an absent (null) or empty one.
Keys == FileNames \cup {""}

Request(m, method, b, key, file, ok) ==
  [module |-> m, method |-> method, origin |-> "", body |-> b, key |-> key, file |-> file,
   ok |-> ok]

NoReq == Request("", "", NoBody, "", NoFile, FALSE)

\* ------------------------------------------------------------ list routes
\* obj => ({ name, size, lastModified })
ListEntry(o) == [name |-> o.name, size |-> o.size, lastModified |-> o.lastModified]

\* files.map(...) over what the provider returned, in the provider's order.
MapFiles(objs) == [i \in 1 .. Len(objs) |-> ListEntry(objs[i])]

\* A variant of aws-list that sends the command a second time when the first
\* attempt fails.
AwsListGETRetrying(objs, ok, t) ==
  IF ~client["aws-list"] \/ ~bucketName["aws-list"]
  THEN Out(Json([error |-> AwsNotInitialized], 500), <<>>, FALSE, t, t)
  ELSE LET command == [NoCall EXCEPT !.provider = "aws", !.api = "send",
                                     !.action = "ListObjectsV2Command"]
       IN IF ~ok
          THEN Out(Json([error |-> "Failed to list files", details |-> SdkError], 500),
                   <<command, command>>, FALSE, t, t)
          ELSE Out(Json([files |-> MapFiles(objs)], 200), <<command>>, FALSE, t, t)

\* aws-list: GET.
AwsListGET(objs, ok, t) ==
  IF ~client["aws-list"] \/ ~bucketName["aws-list"]
  THEN Out(Json([error |-> AwsNotInitialized], 500), <<>>, FALSE, t, t)
  ELSE LET command == [NoCall EXCEPT !.provider = "aws", !.api = "send",
                                     !.action = "ListObjectsV2Command"]
       IN IF ~ok
          THEN Out(Json([error |-> "Failed to list files", details |-> SdkError], 500),
                   <<command>>, FALSE, t, t)
          ELSE Out(Json([files |-> MapFiles(objs)], 200), <<command>>, FALSE, t, t)

\* azure-list: GET.
AzureListGET(objs, ok, t) ==
  IF ~client["azure-list"] \/ ~bucketName["azure-list"]
  THEN Out(Json([error |-> AzureNotInitialized], 500), <<>>, FALSE, t, t)
  ELSE LET iter == [NoCall EXCEPT !.provider = "azure", !.api = "listBlobsFlat",
                                  !.action = "listBlobsFlat"]
       IN IF ~ok
          THEN Out(Json([error |-> "Failed to list files", details |-> SdkError], 500),
                   <<iter>>, FALSE, t, t)
          ELSE Out(Json([files |-> MapFiles(objs)], 200), <<iter>>, FALSE, t, t)

\* gcp-list: GET.
GcpListGET(objs, ok, t) ==
  IF ~client["gcp-list"] \/ ~bucketName["gcp-list"]
  THEN Out(Json([error |-> GcpNotInitialized], 500), <<>>, FALSE, t, t)
  ELSE LET getFiles == [NoCall EXCEPT !.provider = "gcp", !.api = "getFiles",
                                      !.action = "getFiles"]
       IN IF ~ok
          THEN Out(Json([error |-> "Failed to list files", details |-> SdkError], 500),
                   <<getFiles>>, FALSE, t, t)
          ELSE Out(Json([files |-> MapFiles(objs)], 200), <<getFiles>>, FALSE, t, t)

\* ------------------------------------------------- direct routes: AWS
\* new NextResponse(fileBuffer, { status: 200, headers }): the object's bytes.
FileResponse(key) ==
  [NoResp EXCEPT !.status = 200, !.fields = {"Content-Type", "Content-Disposition"},
                 !.fileName = key]

\* A variant of the AWS POST handler in which the exception req.formData()
\* throws escapes: the run ends without a response.
AwsRoutePOSTUnguarded(f, objs, ok, t) ==
  IF ~client["aws"] \/ ~bucketName["aws"]
  THEN Out(Json([error |-> AwsNotInitialized], 500), <<>>, FALSE, t, t)
  ELSE IF ~f.form
  THEN Out(NoResp, <<>>, TRUE, t, t)
  ELSE IF ~f.present
  THEN Out(Json([error |-> "No file uploaded"], 400), <<>>, TRUE, t, t)
  ELSE LET command == [NoCall EXCEPT !.provider = "aws", !.api = "send",
                                     !.action = "PutObjectCommand", !.key = f.name,
                                     !.contentType = f.type, !.size = f.size]
       IN IF ~ok
          THEN Out(Json([error |-> "Upload failed", details |-> SdkError], 500),
                   <<command>>, TRUE, t, t)
          ELSE Out(Json([message |-> "Upload successful"], 200), <<command>>, TRUE, t, t)

\* aws/route.ts POST: multipart upload through the backend.
AwsRoutePOST(f, objs, ok, t) ==
  IF ~client["aws"] \/ ~bucketName["aws"]
  THEN Out(Json([error |-> AwsNotInitialized], 500), <<>>, FALSE, t, t)
  ELSE IF ~f.form
  THEN Out(Json([error |-> "Upload failed", details |-> ParseError], 500), <<>>, TRUE, t, t)
  ELSE IF ~f.present
  THEN Out(Json([error |-> "No file uploaded"], 400), <<>>, TRUE, t, t)
  ELSE LET command == [NoCall EXCEPT !.provider = "aws", !.api = "send",
                                     !.action = "PutObjectCommand", !.key = f.name,
                                     !.contentType = f.type, !.size = f.size]
       IN IF ~ok
          THEN Out(Json([error |-> "Upload failed", details |-> SdkError], 500),
                   <<command>>, TRUE, t, t)
          ELSE Out(Json([message |-> "Upload successful"], 200), <<command>>, TRUE, t, t)

\* aws/route.ts GET: download one object (key given) or list the bucket.
AwsRouteGET(key, objs, ok, t) ==
  IF ~client["aws"] \/ ~bucketName["aws"]
  THEN Out(Json([error |-> AwsNotInitialized], 500), <<>>, FALSE, t, t)
  ELSE IF key # ""
  THEN LET command == [NoCall EXCEPT !.provider = "aws", !.api = "send",
                                     !.action = "GetObjectCommand", !.key = key]
       IN IF ~ok \/ ~Accepts(objs, command)
          THEN Out(Json([error |-> "GetObject failed", details |-> SdkError], 500),
                   <<command>>, FALSE, t, t)
          ELSE Out(FileResponse(key), <<command>>, FALSE, t, t)
  ELSE LET command == [NoCall EXCEPT !.provider = "aws", !.api = "send",
                                     !.action = "ListObjectsV2Command"]
       IN IF ~ok
          THEN Out(Json([error |-> "ListObjects failed", details |-> SdkError], 500),
                   <<command>>, FALSE, t, t)
          ELSE Out(Json([files |-> MapFiles(objs)], 200), <<command>>, FALSE, t, t)

\* A variant of the DELETE handler that remembers the request handled before it
\* and turns a repeated one away.
AwsRouteDELETERemembering(key, objs, ok, t) ==
  IF ~client["aws"] \/ ~bucketName["aws"]
  THEN Out(Json([error |-> AwsNotInitialized], 500), <<>>, FALSE, t, t)
  ELSE IF key = ""
  THEN Out(Json([error |-> "No key provided"], 400), <<>>, FALSE, t, t)
  ELSE IF req.module = "aws" /\ req.method = "DELETE" /\ req.key = key
  THEN Out(Json([error |-> "Duplicate request"], 400), <<>>, FALSE, t, t)
  ELSE LET command == [NoCall EXCEPT !.provider = "aws", !.api = "send",
                                     !.action = "DeleteObjectCommand", !.key = key]
       IN IF ~ok \/ ~Accepts(objs, command)
          THEN Out(Json([error |-> "DeleteObject failed", details |-> SdkError], 500),
                   <<command>>, FALSE, t, t)
          ELSE Out(Json([message |-> "Delete successful"], 200), <<command>>, FALSE, t, t)

\* aws/route.ts DELETE.
AwsRouteDELETE(key, objs, ok, t) ==
  IF ~client["aws"] \/ ~bucketName["aws"]
  THEN Out(Json([error |-> AwsNotInitialized], 500), <<>>, FALSE, t, t)
  ELSE IF key = ""
  THEN Out(Json([error |-> "No key provided"], 400), <<>>, FALSE, t, t)
  ELSE LET command == [NoCall EXCEPT !.provider = "aws", !.api = "send",
                                     !.action = "DeleteObjectCommand", !.key = key]
       IN IF ~ok \/ ~Accepts(objs, command)
          THEN Out(Json([error |-> "DeleteObject failed", details |-> SdkError], 500),
                   <<command>>, FALSE, t, t)
          ELSE Out(Json([message |-> "Delete successful"], 200), <<command>>, FALSE, t, t)

\* ------------------------------------------------- direct routes: Azure
AzureRouteNotInitialized ==
  "Azure client not initialized. Please check environment variables."

MissingAzureEnv ==
  "Missing Azure environment variables. Please set AZURE_STORAGE_ACCOUNT_NAME, AZURE_STORAGE_ACCOUNT_KEY, and AZURE_CONTAINER_NAME"

\* azure/route.ts POST: multipart upload; uploadToAzure validates the environment
\* again before it uploads.
AzureRoutePOST(f, objs, ok, t) ==
  IF ~client["azure"]
  THEN Out(Json([error |-> AzureRouteNotInitialized], 500), <<>>, FALSE, t, t)
  ELSE IF ~f.form
  THEN Out(Json([error |-> "Upload failed", details |-> ParseError], 500), <<>>, TRUE, t, t)
  ELSE IF ~f.present
  THEN Out(Json([error |-> "No file uploaded"], 400), <<>>, TRUE, t, t)
  ELSE IF ~(validateEnv("azure") \subseteq env)
  THEN Out(Json([error |-> "Upload failed", details |-> MissingAzureEnv], 500),
           <<>>, TRUE, t, t)
  ELSE LET upload == [NoCall EXCEPT !.provider = "azure", !.api = "uploadData",
                                    !.action = "uploadData", !.key = f.name,
                                    !.contentType = f.type, !.size = f.size]
       IN IF ~ok
          THEN Out(Json([error |-> "Upload failed", details |-> SdkError], 500),
                   <<upload>>, TRUE, t, t)
          ELSE Out(Json([message |-> "Upload successful"], 200), <<upload>>, TRUE, t, t)

\* azure/route.ts GET: download one blob (key given) or list the container.
AzureRouteGET(key, objs, ok, t) ==
  IF ~client["azure"]
  THEN Out(Json([error |-> AzureRouteNotInitialized], 500), <<>>, FALSE, t, t)
  ELSE IF ~(validateEnv("azure") \subseteq env)
  THEN Out(Json([error |-> "Azure operation failed", details |-> MissingAzureEnv], 500),
           <<>>, FALSE, t, t)
  ELSE IF key # ""
  THEN LET download == [NoCall EXCEPT !.provider = "azure", !.api = "download",
                                      !.action = "download", !.key = key]
       IN IF ~ok \/ ~Accepts(objs, download)
          THEN Out(Json([error |-> "GetBlob failed", details |-> SdkError], 500),
                   <<download>>, FALSE, t, t)
          ELSE Out(FileResponse(key), <<download>>, FALSE, t, t)
  ELSE LET iter == [NoCall EXCEPT !.provider = "azure", !.api = "listBlobsFlat",
                                  !.action = "listBlobsFlat"]
       IN IF ~ok
          THEN Out(Json([error |-> "ListBlobs failed", details |-> SdkError], 500),
                   <<iter>>, FALSE, t, t)
          ELSE Out(Json([files |-> MapFiles(objs)], 200), <<iter>>, FALSE, t, t)

\* azure/route.ts DELETE.
AzureRouteDELETE(key, objs, ok, t) ==
  IF ~client["azure"]
  THEN Out(Json([error |-> AzureRouteNotInitialized], 500), <<>>, FALSE, t, t)
  ELSE IF key = ""
  THEN Out(Json([error |-> "No key provided"], 400), <<>>, FALSE, t, t)
  ELSE IF ~(validateEnv("azure") \subseteq env)
  THEN Out(Json([error |-> "DeleteBlob failed", details |-> MissingAzureEnv], 500),
           <<>>, FALSE, t, t)
  ELSE LET delete == [NoCall EXCEPT !.provider = "azure", !.api = "delete",
                                    !.action = "delete", !.key = key]
       IN IF ~ok \/ ~Accepts(objs, delete)
          THEN Out(Json([error |-> "DeleteBlob failed", details |-> SdkError], 500),
                   <<delete>>, FALSE, t, t)
          ELSE Out(Json([message |-> "Delete successful"], 200), <<delete>>, FALSE, t, t)

\* --------------------------------------------------- direct routes: GCP
GcpRouteNotInitialized == "GCP client not initialized. Please check environment variables."

\* The entries of the GCP direct listing carry the content type as well.
GcpListEntry(o) ==
  [name |-> o.name, size |-> o.size, lastModified |-> o.lastModified,
   contentType |-> o.contentType]

\* gcp/route.ts POST: multipart upload through the backend.
GcpRoutePOST(f, objs, ok, t) ==
  IF ~client["gcp"] \/ ~bucketName["gcp"]
  THEN Out(Json([error |-> GcpRouteNotInitialized], 500), <<>>, FALSE, t, t)
  ELSE IF ~f.form
  THEN Out(Json([error |-> "Upload failed", details |-> ParseError], 500), <<>>, TRUE, t, t)
  ELSE IF ~f.present
  THEN Out(Json([error |-> "No file uploaded"], 400), <<>>, TRUE, t, t)
  ELSE LET save == [NoCall EXCEPT !.provider = "gcp", !.api = "save", !.action = "save",
                                  !.key = f.name, !.contentType = f.type,
                                  !.size = f.size]
       IN IF ~ok
          THEN Out(Json([error |-> "Upload failed", details |-> SdkError], 500),
                   <<save>>, TRUE, t, t)
          ELSE Out(Json([message |-> "Upload successful"], 200), <<save>>, TRUE, t, t)

\* gcp/route.ts GET: download one file (key given) or list the bucket.  fail is
\* the position of the SDK call that fails (0: none does); the download branch
\* calls exists, getSignedUrl, download and getMetadata in this order.
GcpRouteGET(key, objs, fail, t) ==
  IF ~client["gcp"] \/ ~bucketName["gcp"]
  THEN Out(Json([error |-> GcpRouteNotInitialized], 500), <<>>, FALSE, t, t)
  ELSE IF key # ""
  THEN LET blob == [NoCall EXCEPT !.provider = "gcp", !.key = key]
           exists == [blob EXCEPT !.api = "exists", !.action = "exists"]
           sign == [blob EXCEPT !.api = "getSignedUrl", !.action = "read",
                                !.expires = t + 15 * 60 * 1000]
           download == [blob EXCEPT !.api = "download", !.action = "download"]
           getMetadata == [blob EXCEPT !.api = "getMetadata", !.action = "getMetadata"]
           all == <<exists, sign, download, getMetadata>>
           failure == Json([error |-> "GetFile failed", details |-> SdkError], 500)
       IN IF fail = 1
          THEN Out(failure, SubSeq(all, 1, 1), FALSE, t, t)
          ELSE IF ~Exists(objs, key)
          THEN Out(Json([error |-> "File not found"], 404), SubSeq(all, 1, 1), FALSE, t, t)
          ELSE IF fail # 0
          THEN Out(failure, SubSeq(all, 1, fail), FALSE, t, t)
          ELSE Out(FileResponse(key), all, FALSE, t, t)
  ELSE LET getFiles == [NoCall EXCEPT !.provider = "gcp", !.api = "getFiles",
                                      !.action = "getFiles"]
       IN IF fail # 0
          THEN Out(Json([error |-> "ListFiles failed", details |-> SdkError], 500),
                   <<getFiles>>, FALSE, t, t)
          ELSE Out(Json([files |-> [i \in 1 .. Len(objs) |-> GcpListEntry(objs[i])]], 200),
                   <<getFiles>>, FALSE, t, t)

\* A variant of the GCP DELETE handler that calls delete whatever the probe
\* reported.
GcpRouteDELETEIgnoringProbe(key, objs, fail, t) ==
  IF ~client["gcp"] \/ ~bucketName["gcp"]
  THEN Out(Json([error |-> GcpRouteNotInitialized], 500), <<>>, FALSE, t, t)
  ELSE IF key = ""
  THEN Out(Json([error |-> "No key provided"], 400), <<>>, FALSE, t, t)
  ELSE LET blob == [NoCall EXCEPT !.provider = "gcp", !.key = key]
           exists == [blob EXCEPT !.api = "exists", !.action = "exists"]
           delete == [blob EXCEPT !.api = "delete", !.action = "delete"]
           failure == Json([error |-> "DeleteFile failed", details |-> SdkError], 500)
       IN IF fail = 1
          THEN Out(failure, <<exists>>, FALSE, t, t)
          ELSE IF fail # 0 \/ ~Exists(objs, key)
          THEN Out(failure, <<exists, delete>>, FALSE, t, t)
          ELSE Out(Json([message |-> "Delete successful"], 200), <<exists, delete>>,
                   FALSE, t, t)

\* gcp/route.ts DELETE: probes existence, then deletes.
GcpRouteDELETE(key, objs, fail, t) ==
  IF ~client["gcp"] \/ ~bucketName["gcp"]
  THEN Out(Json([error |-> GcpRouteNotInitialized], 500), <<>>, FALSE, t, t)
  ELSE IF key = ""
  THEN Out(Json([error |-> "No key provided"], 400), <<>>, FALSE, t, t)
  ELSE LET blob == [NoCall EXCEPT !.provider = "gcp", !.key = key]
           exists == [blob EXCEPT !.api = "exists", !.action = "exists"]
           delete == [blob EXCEPT !.api = "delete", !.action = "delete"]
           failure == Json([error |-> "DeleteFile failed", details |-> SdkError], 500)
       IN IF fail = 1
          THEN Out(failure, <<exists>>, FALSE, t, t)
          ELSE IF ~Exists(objs, key)
          THEN Out(Json([error |-> "File not found"], 404), <<exists>>, FALSE, t, t)
          ELSE IF fail # 0
          THEN Out(failure, <<exists, delete>>, FALSE, t, t)
          ELSE Out(Json([message |-> "Delete successful"], 200), <<exists, delete>>,
                   FALSE, t, t)

\* ------------------------------------------------- the pages: React state
\* type CloudProvider
CloudProviders == {"aws-s3", "azure-blob", "gcp-storage"}

getProviderName(provider) ==
  CASE provider = "aws-s3" -> "AWS S3"
    [] provider = "azure-blob" -> "Azure Blob Storage"
    [] provider = "gcp-storage" -> "GCP Cloud Storage"

\* The files the user can pick: two images (the second one too large and of a
\* type the AWS endpoint turns down) and a document.  NoPick: no file (null).
NoPick == [name |-> "", type |-> "", size |-> 0]

Picks ==
  {[name |-> "cat.jpg", type |-> "image/jpeg", size |-> maxSize],
   [name |-> "missing.png", type |-> "image/bmp", size |-> maxSize + 1],
   [name |-> "notes.pdf", type |-> "application/pdf", size |-> 1048576]}

\* file.type.startsWith('image/'), over the types of the files above.
startsWithImage(type) == type \in {"image/jpeg", "image/bmp"}

\* sonner's toast: the last toast shown; NoToast: none yet.
NoToast == [kind |-> "", message |-> ""]

Toast(kind, message) == [kind |-> kind, message |-> message]

\* useState<UploadResponse | null>(null): `shown` is FALSE for null.
NoUploadResponse == [shown |-> FALSE, success |-> FALSE, message |-> ""]

\* The upload in progress: `step` is the fetch handleUpload awaits ("idle":
\* none), `file` and `provider` the values its closure captured, `fileName` and
\* `url` what the issuance returned; `sent` lists the requests the run has sent
\* so far with their outcomes, `reported` what the run told the user when it
\* ended ("": it has not ended), `timers` counts the pending reset timers,
\* `pickedLater` tells that the file selected was picked while a reset timer
\* was pending.
InitialUploader ==
  [selectedFile |-> NoPick, cloudProvider |-> "aws-s3", isUploading |-> FALSE,
   uploadResponse |-> NoUploadResponse, toast |-> NoToast,
   step |-> "idle", file |-> NoPick, provider |-> "aws-s3", fileName |-> "", url |-> NoUrl,
   sent |-> << >>, reported |-> "", timers |-> 0, pickedLater |-> FALSE]

\* The call of the files page to the backend that settled last, for the
\* record: which call, whether it failed (an error status, or a fetch that
\* rejected), the error message the backend sent with the failure, and the
\* message of the toast the page showed for it ("": no toast).
NoCallRecord == [call |-> "", failed |-> FALSE, error |-> "", toast |-> ""]

\* The files page after its first render: its React state, the list requests
\* in flight by provider (useEffect has called loadFiles), the deletes in
\* flight (`step`: the fetch the delete awaits, `fileName` and `provider` the
\* values its closure captured, `url` what the issuance returned), the state of
\* the image card that loaded last, the URL window.open was called with, the
\* record of the call that settled last, the number of clicks and card loads
\* so far, and the provider whose list request set the list on display
\* (`filesOf`, "" before the first answer).
InitialFilesPage ==
  [files |-> << >>, totalFiles |-> 0, totalPages |-> 0, currentPage |-> 1,
   loading |-> TRUE, deletingFile |-> "", selectedProvider |-> "aws-s3",
   toast |-> NoToast, listing |-> {"aws-s3"}, deletes |-> {},
   preview |-> [fileName |-> "", imageUrl |-> NoUrl, error |-> FALSE],
   opened |-> NoUrl, last |-> NoCallRecord, clicks |-> 0, filesOf |-> ""]

\* The two requests of the concurrent runs of gcp/route.ts DELETE, and a run
\* before its request has arrived: `pc` is the await the run is at ("idle":
\* not started, "exists", "delete", "done"), `key` the query parameter, `resp`
\* the response once the run is done.
Requests == {"first", "second"}

NoRun == [pc |-> "idle", key |-> "", resp |-> NoResp]

\* FileStorage before its first call: nothing under STORAGE_KEY, which
\* getAllFiles reads as the empty list.  `saved` counts the calls of saveFile;
\* `call` is the call made last: the method, the id it was given or made, the
\* record saveFile built, whether localStorage.setItem succeeded, what the call
\* returned (deleteFile) and the list as it was before the call.
NoStoredFile ==
  [id |-> 0, name |-> "", size |-> 0, type |-> "", provider |-> "", uploadDate |-> 0]

NoStorageCall ==
  [method |-> "", id |-> 0, record |-> NoStoredFile, written |-> FALSE,
   returned |-> FALSE, before |-> << >>]

InitialStorage == [files |-> << >>, saved |-> 0, call |-> NoStorageCall]

\* The environments the process is started in: everything set, exactly one
\* variable missing, nothing set.
Environments == {EnvVars, {}} \cup { EnvVars \ {v} : v \in EnvVars }

\* The state after the process has started with the providers holding the
\* objects `held`.
Started(held) ==
  /\ env \in Environments
  /\ client = [m \in Modules |-> initModule(m, env).client]
  /\ bucketName = [m \in Modules |-> initModule(m, env).bucketName]
  /\ now = 0
  /\ objects = held
  /\ req = NoReq
  /\ resp = NoResp
  /\ calls = << >>
  /\ parsed = FALSE
  /\ readAt = [stamp |-> 0, expiry |-> 0]
  /\ log = << >>
  /\ redeemed = << >>
  /\ uploader = InitialUploader
  /\ filesPage = InitialFilesPage
  /\ storage = InitialStorage
  /\ inFlight = [i \in Requests |-> NoRun]

Init == Started([p \in Providers |-> << Object("cat.jpg", 1048576, 0, "image/jpeg") >>])

\* The clock advances by one millisecond.
Tick ==
  /\ now < MaxClock
  /\ now' = now + 1
  /\ UNCHANGED <<env, client, bucketName, objects, req, resp, calls, parsed, readAt, log,
                 redeemed, pages>>

\* A grant as the caller holds it after a successful issuance.
Grant(r, out) ==
  [module |-> r.module, clientName |-> r.body.fileName, stamp |-> out.readAt.stamp,
   expiry |-> out.readAt.expiry, key |-> out.resp.fileName,
   url |-> out.resp.presignedUrl, expiresIn |-> out.resp.expiresIn]

\* The issuance actions below take the set of request bodies the callers send.
\* One run of an issuance handler: r is the request, out what the handler
\* returned; the calls of a run that ends with success have been carried out by
\* the provider; `keep` tells whether the caller keeps the grant of a
\* successful issuance (the history of the grants model).
Served(r, out, keep) ==
  /\ req' = r
  /\ resp' = out.resp
  /\ calls' = out.calls
  /\ parsed' = out.parsed
  /\ readAt' = out.readAt
  /\ now' = out.readAt.expiry
  /\ log' = IF keep /\ out.resp.status = 200 THEN Append(log, Grant(r, out)) ELSE log
  /\ objects' = [objects EXCEPT ![ProviderOf(r.module)] =
                   IF out.resp.status = 200 THEN AppliedAll(@, out.calls, now) ELSE @]
  /\ UNCHANGED <<env, client, bucketName, redeemed>>

\* A request that does not come from a page of the frontend.
Handled(r, out, keep) == Served(r, out, keep) /\ UNCHANGED pages

\* The request r as sent with Origin header `origin`.
From(origin, r) == [r EXCEPT !.origin = origin]

\* Every return statement of a presigned, list or completion-notice handler
\* passes its response through addCorsHeaders(response, req).
WithCors(origin, out) == [out EXCEPT !.resp = addCorsHeaders(@, origin)]

\* The callers of the endpoints that send no Origin header.
NoOrigin == {""}

\* The outcome of the SDK call of a handler run is drawn only if the run makes
\* the call: `reached` is what the handler returns when the call succeeds.
Outcomes(reached) == IF reached.calls = << >> THEN {FALSE} ELSE BOOLEAN

\* Later clock reads of one handler run: now <= t1 <= t2 <= now + MaxDrift, the
\* clock staying within 0 .. MaxClock; a run that returns before it reads the
\* clock again leaves the clock where it is.
Drifts(reached) ==
  IF reached.calls = << >>
  THEN {[t1 |-> now, t2 |-> now]}
  ELSE { d \in [t1 : now .. now + MaxDrift, t2 : now .. now + MaxDrift] :
           d.t1 <= d.t2 /\ d.t2 <= MaxClock }

AwsPost(origins, bodies, keep) ==
  \E o \in origins : \E b \in bodies : \E ok \in Outcomes(AwsPostPOST(b, now, TRUE)) :
    Handled(From(o, Request("aws-post", "POST", b, "", NoFile, ok)),
            WithCors(o, AwsPostPOST(b, now, ok)), keep)

AwsGet(origins, bodies, keep) ==
  \E o \in origins : \E b \in bodies : \E ok \in Outcomes(AwsGetPOST(b, now, TRUE)) :
    Handled(From(o, Request("aws-get", "POST", b, "", NoFile, ok)),
            WithCors(o, AwsGetPOST(b, now, ok)), keep)

AwsDelete(origins, bodies, keep) ==
  \E o \in origins : \E b \in bodies : \E ok \in Outcomes(AwsDeletePOST(b, now, TRUE)) :
    Handled(From(o, Request("aws-delete", "POST", b, "", NoFile, ok)),
            WithCors(o, AwsDeletePOST(b, now, ok)), keep)

AzurePost(origins, bodies, keep) ==
  \E o \in origins : \E b \in bodies : \E ok \in Outcomes(AzurePostPOST(b, now, now, now, TRUE)) :
    \E d \in Drifts(AzurePostPOST(b, now, now, now, TRUE)) :
      Handled(From(o, Request("azure-post", "POST", b, "", NoFile, ok)),
            WithCors(o, AzurePostPOST(b, now, d.t1, d.t2, ok)), keep)

AzureGet(origins, bodies, keep) ==
  \E o \in origins : \E b \in bodies : \E ok \in Outcomes(AzureGetPOST(b, now, now, now, TRUE)) :
    \E d \in Drifts(AzureGetPOST(b, now, now, now, TRUE)) :
      Handled(From(o, Request("azure-get", "POST", b, "", NoFile, ok)),
            WithCors(o, AzureGetPOST(b, now, d.t1, d.t2, ok)), keep)

AzureDelete(origins, bodies, keep) ==
  \E o \in origins : \E b \in bodies : \E ok \in Outcomes(AzureDeletePOST(b, now, now, now, TRUE)) :
    \E d \in Drifts(AzureDeletePOST(b, now, now, now, TRUE)) :
      Handled(From(o, Request("azure-delete", "POST", b, "", NoFile, ok)),
            WithCors(o, AzureDeletePOST(b, now, d.t1, d.t2, ok)), keep)

GcpPost(origins, bodies, keep) ==
  \E o \in origins : \E b \in bodies : \E ok \in Outcomes(GcpPostPOST(b, now, TRUE)) :
    Handled(From(o, Request("gcp-post", "POST", b, "", NoFile, ok)),
            WithCors(o, GcpPostPOST(b, now, ok)), keep)

GcpGet(origins, bodies, keep) ==
  \E o \in origins : \E b \in bodies : \E ok \in Outcomes(GcpGetPOST(b, now, TRUE)) :
    Handled(From(o, Request("gcp-get", "POST", b, "", NoFile, ok)),
            WithCors(o, GcpGetPOST(b, now, ok)), keep)

GcpDelete(origins, bodies, keep) ==
  \E o \in origins : \E b \in bodies : \E ok \in Outcomes(GcpDeletePOST(b, now, TRUE)) :
    Handled(From(o, Request("gcp-delete", "POST", b, "", NoFile, ok)),
            WithCors(o, GcpDeletePOST(b, now, ok)), keep)

AwsResponse(origins, bodies) ==
  \E o \in origins : \E b \in bodies :
    Handled(From(o, Request("aws-response", "POST", b, "", NoFile, FALSE)),
            WithCors(o, AwsResponsePOST(b, now)), FALSE)

GcpResponse(origins, bodies) ==
  \E o \in origins : \E b \in bodies :
    Handled(From(o, Request("gcp-response", "POST", b, "", NoFile, FALSE)),
            WithCors(o, GcpResponsePOST(b, now)), FALSE)

\* One run of a list or direct handler of module m: the calls of a run that
\* ends with success have been carried out by the provider.
Routed(r, out) ==
  /\ req' = r
  /\ resp' = out.resp
  /\ calls' = out.calls
  /\ parsed' = out.parsed
  /\ readAt' = out.readAt
  /\ objects' = [objects EXCEPT ![ProviderOf(r.module)] =
                   IF out.resp.status = 200 THEN AppliedAll(@, out.calls, now) ELSE @]
  /\ UNCHANGED <<env, client, bucketName, now, log, redeemed, pages>>

\* The position of the failing SDK call of a run that makes several calls is
\* drawn among the calls the run makes when none fails.
FailPoints(reached) == 0 .. Len(reached.calls)

AwsList(origins) ==
  \E o \in origins : \E ok \in Outcomes(AwsListGET(objects["aws"], TRUE, now)) :
    Routed(From(o, Request("aws-list", "GET", NoBody, "", NoFile, ok)),
           WithCors(o, AwsListGET(objects["aws"], ok, now)))

AzureList(origins) ==
  \E o \in origins : \E ok \in Outcomes(AzureListGET(objects["azure"], TRUE, now)) :
    Routed(From(o, Request("azure-list", "GET", NoBody, "", NoFile, ok)),
           WithCors(o, AzureListGET(objects["azure"], ok, now)))

GcpList(origins) ==
  \E o \in origins : \E ok \in Outcomes(GcpListGET(objects["gcp"], TRUE, now)) :
    Routed(From(o, Request("gcp-list", "GET", NoBody, "", NoFile, ok)),
           WithCors(o, GcpListGET(objects["gcp"], ok, now)))

AwsRoutePost(origins) ==
  \E o \in origins : \E f \in Files : \E ok \in Outcomes(AwsRoutePOST(f, objects["aws"], TRUE, now)) :
    Routed(From(o, Request("aws", "POST", NoBody, "", f, ok)),
           AwsRoutePOST(f, objects["aws"], ok, now))

AwsRouteGet(origins) ==
  \E o \in origins : \E key \in Keys : \E ok \in Outcomes(AwsRouteGET(key, objects["aws"], TRUE, now)) :
    Routed(From(o, Request("aws", "GET", NoBody, key, NoFile, ok)),
           AwsRouteGET(key, objects["aws"], ok, now))

AwsRouteDelete(origins) ==
  \E o \in origins : \E key \in Keys : \E ok \in Outcomes(AwsRouteDELETE(key, objects["aws"], TRUE, now)) :
    Routed(From(o, Request("aws", "DELETE", NoBody, key, NoFile, ok)),
           AwsRouteDELETE(key, objects["aws"], ok, now))

AzureRoutePost(origins) ==
  \E o \in origins : \E f \in Files : \E ok \in Outcomes(AzureRoutePOST(f, objects["azure"], TRUE, now)) :
    Routed(From(o, Request("azure", "POST", NoBody, "", f, ok)),
           AzureRoutePOST(f, objects["azure"], ok, now))

AzureRouteGet(origins) ==
  \E o \in origins : \E key \in Keys : \E ok \in Outcomes(AzureRouteGET(key, objects["azure"], TRUE, now)) :
    Routed(From(o, Request("azure", "GET", NoBody, key, NoFile, ok)),
           AzureRouteGET(key, objects["azure"], ok, now))

AzureRouteDelete(origins) ==
  \E o \in origins : \E key \in Keys : \E ok \in Outcomes(AzureRouteDELETE(key, objects["azure"], TRUE, now)) :
    Routed(From(o, Request("azure", "DELETE", NoBody, key, NoFile, ok)),
           AzureRouteDELETE(key, objects["azure"], ok, now))

GcpRoutePost(origins) ==
  \E o \in origins : \E f \in Files : \E ok \in Outcomes(GcpRoutePOST(f, objects["gcp"], TRUE, now)) :
    Routed(From(o, Request("gcp", "POST", NoBody, "", f, ok)),
           GcpRoutePOST(f, objects["gcp"], ok, now))

GcpRouteGet(origins) ==
  \E o \in origins : \E key \in Keys : \E fail \in FailPoints(GcpRouteGET(key, objects["gcp"], 0, now)) :
    Routed(From(o, Request("gcp", "GET", NoBody, key, NoFile, fail = 0)),
           GcpRouteGET(key, objects["gcp"], fail, now))

GcpRouteDelete(origins) ==
  \E o \in origins : \E key \in Keys : \E fail \in FailPoints(GcpRouteDELETE(key, objects["gcp"], 0, now)) :
    Routed(From(o, Request("gcp", "DELETE", NoBody, key, NoFile, fail = 0)),
           GcpRouteDELETE(key, objects["gcp"], fail, now))

\* The issuance endpoints, the list endpoints and the completion notices, each
\* request handled on its own.
Next ==
  \/ Tick
  \/ AwsList(NoOrigin)
  \/ AzureList(NoOrigin)
  \/ GcpList(NoOrigin)
  \/ AwsPost(NoOrigin, UploadBodies, FALSE)
  \/ AwsGet(NoOrigin, NameBodies, FALSE)
  \/ AwsDelete(NoOrigin, NameBodies, FALSE)
  \/ AzurePost(NoOrigin, UploadBodies, FALSE)
  \/ AzureGet(NoOrigin, NameBodies, FALSE)
  \/ AzureDelete(NoOrigin, NameBodies, FALSE)
  \/ GcpPost(NoOrigin, UploadBodies, FALSE)
  \/ GcpGet(NoOrigin, NameBodies, FALSE)
  \/ GcpDelete(NoOrigin, NameBodies, FALSE)
  \/ AwsResponse(NoOrigin, NameBodies)
  \/ GcpResponse(NoOrigin, NameBodies)

Spec == Init /\ [][Next]_vars

\* ------------------------------------------------ grants and redemption
\* The browser redeems grant i at the provider (PUT / GET / DELETE on the signed
\* URL); the provider carries out the operation the URL was signed for, on the
\* key it was signed for.  Grants live for minutes, the clock of the model runs
\* for milliseconds: no grant expires within a behaviour.
Redeem(i) ==
  LET c == [log[i].url.call EXCEPT !.api = "fetch", !.size = 1048576]
      p == c.provider
      accepted == Accepts(objects[p], c)
  IN /\ Len(redeemed) < MaxRedeem
     /\ redeemed' = Append(redeemed, [grant |-> i, ok |-> accepted,
                                      existed |-> Exists(objects[p], c.key)])
     /\ objects' = [objects EXCEPT ![p] = IF accepted THEN Applied(@, c, now) ELSE @]
     /\ UNCHANGED <<env, client, bucketName, now, req, resp, calls, parsed, readAt, log, pages>>

\* The requests the pages of the frontend send for a file the user picked.
UploadBody ==
  [json |-> TRUE, has |-> {"fileName", "fileType", "fileSize"}, fileName |-> "cat.jpg",
   fileType |-> "image/jpeg", fileSize |-> maxSize]

NameBody ==
  [json |-> TRUE, has |-> {"fileName"}, fileName |-> "cat.jpg", fileType |-> "",
   fileSize |-> 0]

\* The start of the grants model: every variable of the environment is set.
GrantsInit == Init /\ env = EnvVars

\* The caller obtains grants from the issuance endpoints, keeps them, and
\* redeems them at the provider in any order, any number of times.
GrantsNext ==
  \/ Tick
  \/ Len(log) < MaxLog /\ AwsPost(NoOrigin, {UploadBody}, TRUE) /\ req'.ok
  \/ Len(log) < MaxLog /\ AwsGet(NoOrigin, {NameBody}, TRUE) /\ req'.ok
  \/ Len(log) < MaxLog /\ AwsDelete(NoOrigin, {NameBody}, TRUE) /\ req'.ok
  \/ Len(log) < MaxLog /\ AzurePost(NoOrigin, {UploadBody}, TRUE) /\ req'.ok
  \/ Len(log) < MaxLog /\ AzureGet(NoOrigin, {NameBody}, TRUE) /\ req'.ok
  \/ Len(log) < MaxLog /\ AzureDelete(NoOrigin, {NameBody}, TRUE) /\ req'.ok
  \/ Len(log) < MaxLog /\ GcpPost(NoOrigin, {UploadBody}, TRUE) /\ req'.ok
  \/ Len(log) < MaxLog /\ GcpGet(NoOrigin, {NameBody}, TRUE) /\ req'.ok
  \/ Len(log) < MaxLog /\ GcpDelete(NoOrigin, {NameBody}, TRUE) /\ req'.ok
  \/ \E i \in 1 .. Len(log) : Redeem(i)

SpecGrants == GrantsInit /\ [][GrantsNext]_vars

\* The list routes, the completion notices and the direct (non-presigned)
\* routes.
RoutesNext ==
  \/ AwsList(NoOrigin)
  \/ AzureList(NoOrigin)
  \/ GcpList(NoOrigin)
  \/ AwsResponse(NoOrigin, NameBodies)
  \/ GcpResponse(NoOrigin, NameBodies)
  \/ AwsRoutePost(NoOrigin)
  \/ AwsRouteGet(NoOrigin)
  \/ AwsRouteDelete(NoOrigin)
  \/ AzureRoutePost(NoOrigin)
  \/ AzureRouteGet(NoOrigin)
  \/ AzureRouteDelete(NoOrigin)
  \/ GcpRoutePost(NoOrigin)
  \/ GcpRouteGet(NoOrigin)
  \/ GcpRouteDelete(NoOrigin)

SpecRoutes == Init /\ [][RoutesNext]_vars

\* ------------------------------------------------- callers of any origin
\* The modules whose handlers begin with corsMiddleware(req).
CorsModules == (Modules \ Providers) \cup {"aws-response", "gcp-response"}

\* A handler of module m is handed an OPTIONS request: corsMiddleware returns
\* the preflight response and the handler returns it at once.  (The framework
\* routes a request to the export named after its method, so this run takes
\* place only where the function is called with such a request.)
Preflight(origins) ==
  \E o \in origins : \E m \in CorsModules :
    Handled(From(o, Request(m, "OPTIONS", NoBody, "", NoFile, FALSE)),
            Out(corsMiddleware("OPTIONS", o), << >>, FALSE, now, now), FALSE)

\* One body per way a handler treats its body: not JSON, JSON without fields,
\* a file name alone, and the fields of an upload.
CallerBodies == {NoBody, [NoBody EXCEPT !.json = TRUE], NameBody, UploadBody}

\* The handlers that answer with CORS headers, called from pages of any origin.
CorsNext ==
  \/ Preflight(Origins)
  \/ AwsPost(Origins, CallerBodies, FALSE)
  \/ AwsGet(Origins, CallerBodies, FALSE)
  \/ AwsDelete(Origins, CallerBodies, FALSE)
  \/ AzurePost(Origins, CallerBodies, FALSE)
  \/ AzureGet(Origins, CallerBodies, FALSE)
  \/ AzureDelete(Origins, CallerBodies, FALSE)
  \/ GcpPost(Origins, CallerBodies, FALSE)
  \/ GcpGet(Origins, CallerBodies, FALSE)
  \/ GcpDelete(Origins, CallerBodies, FALSE)
  \/ AwsResponse(Origins, CallerBodies)
  \/ GcpResponse(Origins, CallerBodies)
  \/ AwsList(Origins)
  \/ AzureList(Origins)
  \/ GcpList(Origins)

SpecCors == Init /\ [][CorsNext]_vars

\* ------------------------------------------------- requests from the pages
\* The variables of the backend and of the providers.
backend ==
  <<env, client, bucketName, now, objects, req, resp, calls, parsed, readAt, log, redeemed>>

\* The origin the pages are served from: the browser names it in the Origin
\* header of every POST it sends to the app, and sends no Origin with a GET.
PageOrigin == "http://localhost:3000"

\* TypeError: Failed to fetch, the message of a fetch that rejects.
NetworkError == "Failed to fetch"

\* What the handler of endpoint m returns for body b.
HandlerOut(m, b, objs, t, t1, t2, ok) ==
  CASE m = "aws-post" -> AwsPostPOST(b, t, ok)
    [] m = "aws-get" -> AwsGetPOST(b, t, ok)
    [] m = "aws-delete" -> AwsDeletePOST(b, t, ok)
    [] m = "aws-list" -> AwsListGET(objs, ok, t)
    [] m = "aws-response" -> AwsResponsePOST(b, t)
    [] m = "azure-post" -> AzurePostPOST(b, t, t1, t2, ok)
    [] m = "azure-get" -> AzureGetPOST(b, t, t1, t2, ok)
    [] m = "azure-delete" -> AzureDeletePOST(b, t, t1, t2, ok)
    [] m = "azure-list" -> AzureListGET(objs, ok, t)
    [] m = "gcp-post" -> GcpPostPOST(b, t, ok)
    [] m = "gcp-get" -> GcpGetPOST(b, t, ok)
    [] m = "gcp-delete" -> GcpDeletePOST(b, t, ok)
    [] m = "gcp-list" -> GcpListGET(objs, ok, t)
    [] m = "gcp-response" -> GcpResponsePOST(b, t)
       \* no route file exists for this path: the framework answers 404
    [] m = "azure-response" ->
         Out([NoResp EXCEPT !.status = 404, !.fields = {}], << >>, FALSE, t, t)

\* The ways the backend can answer a fetch of endpoint m: the request as the
\* handler sees it and what the handler returns, per outcome of its SDK call.
\* The runs the pages start are short ones: the clock reads the same
\* millisecond throughout.
Runs(m, method, origin, b) ==
  LET objs == objects[ProviderOf(m)]
      reached == HandlerOut(m, b, objs, now, now, now, TRUE)
      withCors(out) == IF m = "azure-response" THEN out ELSE WithCors(origin, out)
  IN { [req |-> From(origin, Request(m, method, b, "", NoFile, ok)),
        out |-> withCors(HandlerOut(m, b, objs, now, now, now, ok))] :
       ok \in Outcomes(reached) }

\* ------------------------------------------------------ the upload page
\* switch (cloudProvider) of handleUpload
apiEndpoint(provider) ==
  CASE provider = "aws-s3" -> "aws-post"
    [] provider = "gcp-storage" -> "gcp-post"
    [] provider = "azure-blob" -> "azure-post"

responseEndpoint(provider) ==
  CASE provider = "aws-s3" -> "aws-response"
    [] provider = "gcp-storage" -> "gcp-response"
    [] provider = "azure-blob" -> "azure-response"

\* JSON.stringify({ fileName: selectedFile.name, fileType, fileSize })
IssuanceBody(file) ==
  [json |-> TRUE, has |-> {"fileName", "fileType", "fileSize"}, fileName |-> file.name,
   fileType |-> file.type, fileSize |-> file.size]

\* JSON.stringify({ fileName, fileSize: selectedFile.size, uploadTime })
NoticeBody(fileName, file) ==
  [json |-> TRUE, has |-> {"fileName", "fileSize"}, fileName |-> fileName,
   fileType |-> "", fileSize |-> file.size]

\* A request of the run: outcome "pending" until its fetch settles, then "ok"
\* (response.ok), "error" (a response with an error status) or "rejected" (the
\* fetch itself failed).
Sent(call) == [call |-> call, outcome |-> "pending"]

Settled(sent, outcome) == [sent EXCEPT ![Len(sent)].outcome = outcome]

\* The catch block of handleUpload without the finally block.
CaughtStillUploading(u, outcome, message) ==
  [u EXCEPT !.sent = Settled(@, outcome),
            !.uploadResponse = [shown |-> TRUE, success |-> FALSE, message |-> message],
            !.toast = Toast("error", message),
            !.reported = "failure",
            !.step = "idle",
            !.file = NoPick, !.provider = "aws-s3", !.fileName = "", !.url = NoUrl]

\* The catch and finally blocks of handleUpload; the locals of the run are
\* gone when it returns.
Caught(u, outcome, message) ==
  [u EXCEPT !.sent = Settled(@, outcome),
            !.uploadResponse = [shown |-> TRUE, success |-> FALSE, message |-> message],
            !.toast = Toast("error", message),
            !.reported = "failure",
            !.isUploading = FALSE,
            !.step = "idle",
            !.file = NoPick, !.provider = "aws-s3", !.fileName = "", !.url = NoUrl]

\* handleFileSelect / handleDrop: the user picks a file.
handleFileSelect ==
  /\ \E file \in Picks :
       uploader' = IF startsWithImage(file.type)
                   THEN [uploader EXCEPT !.selectedFile = file,
                                         !.uploadResponse = NoUploadResponse,
                                         !.pickedLater = uploader.timers > 0]
                   ELSE [uploader EXCEPT !.toast = Toast("error", "Please select an image file")]
  /\ UNCHANGED <<backend, besideUploader>>

\* setCloudProvider: the radio group.
setCloudProvider ==
  /\ \E provider \in CloudProviders : uploader' = [uploader EXCEPT !.cloudProvider = provider]
  /\ UNCHANGED <<backend, besideUploader>>

clearFile ==
  /\ uploader.selectedFile # NoPick
  /\ uploader' = [uploader EXCEPT !.selectedFile = NoPick, !.uploadResponse = NoUploadResponse,
                                  !.pickedLater = FALSE]
  /\ UNCHANGED <<backend, besideUploader>>

\* handleUpload up to its first await: the button is enabled when a file is
\* selected and no upload is in progress; the issuance request is sent.
handleUpload ==
  /\ uploader.selectedFile # NoPick
  /\ ~uploader.isUploading
  /\ uploader.timers < MaxTimers
  /\ uploader' = [uploader EXCEPT !.isUploading = TRUE,
                                  !.uploadResponse = NoUploadResponse,
                                  !.step = "issuance",
                                  !.file = uploader.selectedFile,
                                  !.provider = uploader.cloudProvider,
                                  !.fileName = "",
                                  !.url = NoUrl,
                                  !.sent = <<Sent("issuance")>>,
                                  !.reported = ""]
  /\ UNCHANGED <<backend, besideUploader>>

\* response.ok of a fetch that settled with this status.
Outcome(status) == IF status = 200 THEN "ok" ELSE "error"

\* handleUpload without `if (!response.ok) throw`: the PUT follows whatever the
\* issuance answered.
IssuanceAnsweredUnchecked(u, answer) ==
  [u EXCEPT !.fileName = answer.fileName,
            !.url = answer.presignedUrl,
            !.sent = Append(Settled(@, Outcome(answer.status)), Sent("transfer")),
            !.step = "transfer"]

\* handleUpload from the answer of the issuance to its next await: an error
\* status throws with the error of the body, success sends the PUT.
IssuanceAnswered(u, answer) ==
  IF answer.status = 200
  THEN [u EXCEPT !.fileName = answer.fileName,
                 !.url = answer.presignedUrl,
                 !.sent = Append(Settled(@, "ok"), Sent("transfer")),
                 !.step = "transfer"]
  ELSE Caught(u, "error",
              IF answer.error # "" THEN answer.error ELSE "Failed to get upload URL")

\* handleUpload, step 1 settles: the issuance answers, or the fetch rejects.
IssuanceSettles ==
  /\ uploader.step = "issuance"
  /\ UNCHANGED besideUploader
  /\ \/ /\ uploader' = Caught(uploader, "rejected", NetworkError)
        /\ UNCHANGED backend
     \/ \E run \in Runs(apiEndpoint(uploader.provider), "POST", PageOrigin,
                        IssuanceBody(uploader.file)) :
          /\ Served(run.req, run.out, FALSE)
          /\ uploader' = IssuanceAnswered(uploader, run.out.resp)

\* handleUpload, step 2 settles: the provider answers the PUT on the presigned
\* URL (it stores the file, or turns the request down), or the fetch rejects.
TransferSettles ==
  /\ uploader.step = "transfer"
  /\ UNCHANGED <<env, client, bucketName, now, req, resp, calls, parsed, readAt, log,
                 redeemed, besideUploader>>
  /\ LET put == [uploader.url.call EXCEPT !.api = "fetch", !.size = uploader.file.size]
     IN \/ /\ uploader' = Caught(uploader, "rejected", NetworkError)
           /\ UNCHANGED objects
        \/ /\ uploader' = Caught(uploader, "error",
                                 "Failed to upload file to "
                                   \o getProviderName(uploader.provider))
           /\ UNCHANGED objects
        \/ /\ uploader' = [uploader EXCEPT
                             !.sent = Append(Settled(@, "ok"), Sent("notice")),
                             !.step = "notice"]
           /\ objects' = [objects EXCEPT ![put.provider] = Applied(@, put, now)]

\* The lines of handleUpload after the notice: success is reported and the
\* reset timer is armed.
Succeeded(u, outcome) ==
  LET message == "Image uploaded to " \o getProviderName(u.provider) \o " successfully!"
  IN [u EXCEPT !.sent = Settled(@, outcome),
               !.uploadResponse = [shown |-> TRUE, success |-> TRUE, message |-> message],
               !.toast = Toast("success", message),
               !.reported = "success",
               !.timers = @ + 1,
               !.pickedLater = FALSE,
               !.isUploading = FALSE,
               !.step = "idle",
               !.file = NoPick, !.provider = "aws-s3", !.fileName = "", !.url = NoUrl]

\* handleUpload, step 3 settles: the completion notice answers (its status is
\* not looked at), or the awaited fetch rejects and the catch block runs.
NoticeSettles ==
  /\ uploader.step = "notice"
  /\ UNCHANGED besideUploader
  /\ \/ /\ uploader' = Caught(uploader, "rejected", NetworkError)
        /\ UNCHANGED backend
     \/ \E run \in Runs(responseEndpoint(uploader.provider), "POST", PageOrigin,
                        NoticeBody(uploader.fileName, uploader.file)) :
          /\ Served(run.req, run.out, FALSE)
          /\ uploader' = Succeeded(uploader, Outcome(run.out.resp.status))

\* The callback of setTimeout(..., 3000) runs.
ResetTimer ==
  /\ uploader.timers > 0
  /\ uploader' = [uploader EXCEPT !.selectedFile = NoPick,
                                  !.uploadResponse = NoUploadResponse,
                                  !.pickedLater = FALSE,
                                  !.timers = @ - 1]
  /\ UNCHANGED <<backend, besideUploader>>

\* The backend starts with every variable set or with none.
PagesInit == Init /\ env \in {EnvVars, {}}

\* The user at the upload page.
UploadNext ==
  \/ handleFileSelect
  \/ setCloudProvider
  \/ clearFile
  \/ handleUpload
  \/ IssuanceSettles
  \/ TransferSettles
  \/ NoticeSettles
  \/ ResetTimer

SpecUpload == PagesInit /\ [][UploadNext]_vars

\* ------------------------------------------------------- the files page
filesPerPage == 20

\* files.slice((currentPage - 1) * filesPerPage, currentPage * filesPerPage)
paginatedFiles(f) ==
  LET first == (f.currentPage - 1) * filesPerPage + 1
      last == IF f.currentPage * filesPerPage < Len(f.files)
              THEN f.currentPage * filesPerPage ELSE Len(f.files)
  IN SubSeq(f.files, first, last)

\* The file cards on screen: the grid is rendered when no load is in progress.
Shown(f) ==
  IF f.loading THEN {} ELSE { paginatedFiles(f)[i].name : i \in 1 .. Len(paginatedFiles(f)) }

\* isImageFile: the extension is one of the image extensions; over the file
\* names of the model, which all end in .jpg or .png.
isImageFile(fileName) ==
  \E name \in FileNames :
    fileName = name \/ \E t \in 0 .. MaxClock : fileName = uniqueFileName(t, name)

\* The switch statements over the provider.
listEndpoint(provider) ==
  CASE provider = "azure-blob" -> "azure-list"
    [] provider = "gcp-storage" -> "gcp-list"
    [] OTHER -> "aws-list"

getEndpoint(provider) ==
  CASE provider = "gcp-storage" -> "gcp-get"
    [] provider = "azure-blob" -> "azure-get"
    [] OTHER -> "aws-get"

deleteEndpoint(provider) ==
  CASE provider = "gcp-storage" -> "gcp-delete"
    [] provider = "azure-blob" -> "azure-delete"
    [] OTHER -> "aws-delete"

\* JSON.stringify({ fileName })
FileNameBody(fileName) ==
  [json |-> TRUE, has |-> {"fileName"}, fileName |-> fileName, fileType |-> "",
   fileSize |-> 0]

\* The record of a call to the backend that has settled: `answer` is the
\* response (NoResp when the fetch rejected), `toast` the message of the toast
\* the page showed for it.
CallRecord(call, answer, toast) ==
  [call |-> call, failed |-> answer.status # 200, error |-> answer.error, toast |-> toast]

\* errorData.error || fallback
ErrorOf(answer, fallback) == IF answer.error # "" THEN answer.error ELSE fallback

\* loadFiles up to its await; useEffect calls it when selectedProvider changes,
\* handleDeleteFile after a delete, with the provider of the render it is from.
loadFiles(f, provider) == [f EXCEPT !.loading = TRUE, !.listing = @ \cup {provider}]

\* One more click or card load.
Clicked(f) == [f EXCEPT !.clicks = @ + 1]

\* A click on the button of another provider.
setSelectedProvider ==
  /\ filesPage.clicks < MaxClicks
  /\ \E provider \in CloudProviders \ {filesPage.selectedProvider} :
       filesPage' = loadFiles([Clicked(filesPage) EXCEPT !.selectedProvider = provider],
                              provider)
  /\ UNCHANGED <<backend, besideFilesPage>>

\* loadFiles without its setCurrentPage(1).
ListedKeepingPage(f, provider, answer) ==
  [f EXCEPT !.files = answer.files,
            !.totalFiles = Len(answer.files),
            !.totalPages = (Len(answer.files) + filesPerPage - 1) \div filesPerPage,
            !.loading = FALSE,
            !.listing = @ \ {provider},
            !.filesOf = provider,
            !.last = CallRecord("list", answer, "")]

\* loadFiles when the list came: setFiles(data.files) and the counts.
Listed(f, provider, answer) ==
  [f EXCEPT !.files = answer.files,
            !.totalFiles = Len(answer.files),
            !.totalPages = (Len(answer.files) + filesPerPage - 1) \div filesPerPage,
            !.currentPage = 1,
            !.loading = FALSE,
            !.listing = @ \ {provider},
            !.filesOf = provider,
            !.last = CallRecord("list", answer, "")]

\* loadFiles when the answer is an error or the fetch rejected: the else and
\* the catch branch set the empty list.
NotListed(f, provider, answer) ==
  [f EXCEPT !.files = << >>,
            !.totalFiles = 0,
            !.totalPages = 0,
            !.currentPage = 1,
            !.loading = FALSE,
            !.listing = @ \ {provider},
            !.filesOf = provider,
            !.last = CallRecord("list", answer, "")]

\* loadFiles: the list request for `provider` settles.
LoadFilesSettles ==
  /\ UNCHANGED besideFilesPage
  /\ \E provider \in filesPage.listing :
       \/ /\ filesPage' = NotListed(filesPage, provider, NoResp)
          /\ UNCHANGED backend
       \/ \E run \in Runs(listEndpoint(provider), "GET", "", NoBody) :
            /\ Served(run.req, run.out, FALSE)
            /\ filesPage' = IF run.out.resp.status = 200 /\ "files" \in run.out.resp.fields
                            THEN Listed(filesPage, provider, run.out.resp)
                            ELSE NotListed(filesPage, provider, run.out.resp)

\* handleDeleteFile up to its first await: the button of a file on screen that
\* is not marked as being deleted.
handleDeleteFile ==
  /\ filesPage.clicks < MaxClicks
  /\ Cardinality(filesPage.deletes) < MaxDeletes
  /\ \E fileName \in Shown(filesPage) \ {filesPage.deletingFile} :
       filesPage' = [Clicked(filesPage) EXCEPT
                       !.deletingFile = fileName,
                       !.deletes = @ \cup {[fileName |-> fileName,
                                            provider |-> filesPage.selectedProvider,
                                            step |-> "issuance", url |-> NoUrl]}]
  /\ UNCHANGED <<backend, besideFilesPage>>

\* The catch and finally blocks of handleDeleteFile for the delete d.
DeleteCaught(f, d, message) ==
  [f EXCEPT !.toast = Toast("error", message),
            !.deletingFile = "",
            !.deletes = @ \ {d}]

\* handleDeleteFile, step 1 settles.
DeleteIssuanceSettles ==
  /\ UNCHANGED besideFilesPage
  /\ \E d \in filesPage.deletes :
       /\ d.step = "issuance"
       /\ \/ /\ filesPage' = [DeleteCaught(filesPage, d, NetworkError) EXCEPT
                                !.last = CallRecord("delete", NoResp, NetworkError)]
             /\ UNCHANGED backend
          \/ \E run \in Runs(deleteEndpoint(d.provider), "POST", PageOrigin,
                             FileNameBody(d.fileName)) :
               /\ Served(run.req, run.out, FALSE)
               /\ filesPage' =
                    IF run.out.resp.status = 200
                    THEN [filesPage EXCEPT
                            !.deletes = (@ \ {d}) \cup
                                          {[d EXCEPT !.step = "transfer",
                                                     !.url = run.out.resp.presignedUrl]},
                            !.last = CallRecord("delete", run.out.resp, "")]
                    ELSE LET message == ErrorOf(run.out.resp, "Failed to get delete URL")
                         IN [DeleteCaught(filesPage, d, message) EXCEPT
                               !.last = CallRecord("delete", run.out.resp, message)]

\* handleDeleteFile, step 2 settles: the provider answers the DELETE on the
\* presigned URL, or the fetch rejects.
DeleteTransferSettles ==
  /\ UNCHANGED <<env, client, bucketName, now, req, resp, calls, parsed, readAt, log,
                 redeemed, besideFilesPage>>
  /\ \E d \in filesPage.deletes :
       /\ d.step = "transfer"
       /\ LET delete == [d.url.call EXCEPT !.api = "fetch"]
              p == delete.provider
          IN \/ /\ filesPage' = DeleteCaught(filesPage, d, NetworkError)
                /\ UNCHANGED objects
             \/ /\ ~Accepts(objects[p], delete)
                /\ filesPage' = DeleteCaught(filesPage, d,
                                             "Failed to delete file from " \o d.provider)
                /\ UNCHANGED objects
             \/ /\ Accepts(objects[p], delete)
                /\ objects' = [objects EXCEPT ![p] = Applied(@, delete, now)]
                /\ filesPage' =
                     loadFiles([filesPage EXCEPT
                                  !.toast = Toast("success", "\"" \o d.fileName
                                                    \o "\" deleted successfully"),
                                  !.deletingFile = "",
                                  !.deletes = @ \ {d}],
                               d.provider)

\* handleViewFile: the issuance of a download URL for a file on screen, and
\* window.open on the URL.
handleViewFile ==
  /\ UNCHANGED besideFilesPage
  /\ filesPage.clicks < MaxClicks
  /\ \E fileName \in Shown(filesPage) :
       \/ /\ filesPage' = [Clicked(filesPage) EXCEPT
                             !.toast = Toast("error", NetworkError),
                             !.last = CallRecord("view", NoResp, NetworkError)]
          /\ UNCHANGED backend
       \/ \E run \in Runs(getEndpoint(filesPage.selectedProvider), "POST", PageOrigin,
                          FileNameBody(fileName)) :
            /\ Served(run.req, run.out, FALSE)
            /\ filesPage' =
                 IF run.out.resp.status = 200
                 THEN [Clicked(filesPage) EXCEPT !.opened = run.out.resp.presignedUrl,
                                        !.last = CallRecord("view", run.out.resp, "")]
                 ELSE LET message == ErrorOf(run.out.resp, "Failed to get download URL")
                      IN [Clicked(filesPage) EXCEPT
                            !.toast = Toast("error", message),
                            !.last = CallRecord("view", run.out.resp, message)]

\* ImagePreview.loadImage: the card of an image file on screen asks for a
\* download URL; a failure sets the error flag of the card.
loadImage ==
  /\ UNCHANGED besideFilesPage
  /\ filesPage.clicks < MaxClicks
  /\ \E fileName \in { n \in Shown(filesPage) : isImageFile(n) } :
       \/ /\ filesPage' = [Clicked(filesPage) EXCEPT
                             !.preview = [fileName |-> fileName, imageUrl |-> NoUrl,
                                          error |-> TRUE],
                             !.last = CallRecord("preview", NoResp, "")]
          /\ UNCHANGED backend
       \/ \E run \in Runs(getEndpoint(filesPage.selectedProvider), "POST", PageOrigin,
                          FileNameBody(fileName)) :
            /\ Served(run.req, run.out, FALSE)
            /\ filesPage' =
                 [Clicked(filesPage) EXCEPT
                    !.preview = IF run.out.resp.status = 200
                                THEN [fileName |-> fileName,
                                      imageUrl |-> run.out.resp.presignedUrl,
                                      error |-> FALSE]
                                ELSE [fileName |-> fileName, imageUrl |-> NoUrl,
                                      error |-> TRUE],
                    !.last = CallRecord("preview", run.out.resp, "")]

\* The user at the files page.
FilesNext ==
  \/ setSelectedProvider
  \/ LoadFilesSettles
  \/ handleDeleteFile
  \/ DeleteIssuanceSettles
  \/ DeleteTransferSettles
  \/ handleViewFile
  \/ loadImage

SpecFiles == PagesInit /\ [][FilesNext]_vars

\* The files page while another client of the backend uploads a second file
\* to the AWS bucket through the direct route, before the user's first click.
DeletesNext ==
  \/ FilesNext
  \/ filesPage.clicks = 0 /\ Len(objects["aws"]) < 2 /\ AwsRoutePost(NoOrigin)
        /\ resp'.status = 200

SpecDeletes == PagesInit /\ [][DeletesNext]_vars

\* ------------------------------------------- the files page, several pages
\* Buckets of earlier presigned uploads: MaxFiles objects at AWS (three
\* pages), filesPerPage at Azure (one full page), one more than a page at GCP.
Uploaded(n) ==
  [i \in 1 .. n |-> Object(uniqueFileName(i, "cat.jpg"), 1048576, i, "image/jpeg")]

ManyObjects ==
  [p \in Providers |->
     CASE p = "aws" -> Uploaded(MaxFiles)
       [] p = "azure" -> Uploaded(filesPerPage)
       [] OTHER -> Uploaded(filesPerPage + 1)]

PagingInit == Started(ManyObjects) /\ env = EnvVars

\* handlePageChange(page): the pagination links call it with the numbers of
\* the pages, with currentPage - 1 and with currentPage + 1.
handlePageChange ==
  /\ filesPage.clicks < MaxClicks
  /\ \E page \in 0 .. filesPage.totalPages + 1 :
       filesPage' = IF page >= 1 /\ page <= filesPage.totalPages
                    THEN [Clicked(filesPage) EXCEPT !.currentPage = page]
                    ELSE Clicked(filesPage)
  /\ UNCHANGED <<backend, besideFilesPage>>

\* The user pages through the lists, switches providers and deletes the
\* first file of the page on display.
PagingNext ==
  \/ setSelectedProvider
  \/ LoadFilesSettles
  \/ handlePageChange
  \/ handleDeleteFile /\ filesPage'.deletingFile = paginatedFiles(filesPage)[1].name
  \/ DeleteIssuanceSettles
  \/ DeleteTransferSettles

SpecPaging == PagingInit /\ [][PagingNext]_vars

\* --------------------------- the two pages when every network call settles
\* The tab shows one page at a time: the upload page at "/" or the files page
\* at "/files". The component of the page that is not shown is not mounted,
\* its state stays the initial one.  A behaviour follows one upload, with the
\* user picking files and providers before, during and after it, or the
\* deletes of the files page.
OnUploadPage == filesPage = InitialFilesPage

OnFilesPage == uploader = InitialUploader

LiveNext ==
  \/ OnUploadPage /\ handleFileSelect
  \/ OnUploadPage /\ setCloudProvider
  \/ OnUploadPage /\ clearFile
  \/ OnUploadPage /\ uploader.sent = << >> /\ handleUpload
  \/ IssuanceSettles
  \/ TransferSettles
  \/ NoticeSettles
  \/ ResetTimer
  \/ OnFilesPage /\ setSelectedProvider
  \/ OnFilesPage /\ LoadFilesSettles
  \/ handleDeleteFile
  \/ DeleteIssuanceSettles
  \/ DeleteTransferSettles

\* Every fetch that handleUpload and handleDeleteFile await settles: it
\* answers or rejects.
EveryCallSettles ==
  /\ WF_vars(IssuanceSettles)
  /\ WF_vars(TransferSettles)
  /\ WF_vars(NoticeSettles)
  /\ WF_vars(DeleteIssuanceSettles)
  /\ WF_vars(DeleteTransferSettles)

LiveInit == Init /\ env = EnvVars

SpecLive == LiveInit /\ [][LiveNext]_vars /\ EveryCallSettles

\* ------------------------------------- gcp/route.ts DELETE, step by step
\* The handler up to `await blob.exists()`: the checks of the client and of
\* the key.
GcpDeleteArrives(i) ==
  /\ inFlight[i].pc = "idle"
  /\ \E key \in Keys :
       inFlight' = [inFlight EXCEPT ![i] =
         IF ~client["gcp"] \/ ~bucketName["gcp"]
         THEN [pc |-> "done", key |-> key,
               resp |-> Json([error |-> GcpRouteNotInitialized], 500)]
         ELSE IF key = ""
         THEN [pc |-> "done", key |-> key, resp |-> Json([error |-> "No key provided"], 400)]
         ELSE [pc |-> "exists", key |-> key, resp |-> NoResp]]
  /\ UNCHANGED <<backend, uploader, filesPage, storage>>

\* `const [exists] = await blob.exists()` answers: 404 if the object is not
\* there now, else on to the delete.
GcpDeleteProbes(i) ==
  /\ inFlight[i].pc = "exists"
  /\ inFlight' = [inFlight EXCEPT ![i] =
       IF ~Exists(objects["gcp"], inFlight[i].key)
       THEN [@ EXCEPT !.pc = "done", !.resp = Json([error |-> "File not found"], 404)]
       ELSE [@ EXCEPT !.pc = "delete"]]
  /\ UNCHANGED <<backend, uploader, filesPage, storage>>

\* The answer to a run whose blob.delete() the service turned down: the catch
\* block.
GcpDeleteFailed == Json([error |-> "DeleteFile failed", details |-> SdkError], 500)

\* `await blob.delete()` answers: the service removes the object, or rejects
\* the call because the object is not there any more, which throws.
GcpDeleteDeletes(i) ==
  /\ inFlight[i].pc = "delete"
  /\ LET delete == [NoCall EXCEPT !.provider = "gcp", !.key = inFlight[i].key,
                                  !.api = "delete", !.action = "delete"]
         accepted == Accepts(objects["gcp"], delete)
     IN /\ objects' = [objects EXCEPT !["gcp"] = IF accepted THEN Applied(@, delete, now)
                                                 ELSE @]
        /\ inFlight' = [inFlight EXCEPT ![i] =
             [@ EXCEPT !.pc = "done",
                       !.resp = IF accepted THEN Json([message |-> "Delete successful"], 200)
                                ELSE GcpDeleteFailed]]
  /\ UNCHANGED <<env, client, bucketName, now, req, resp, calls, parsed, readAt, log,
                 redeemed, uploader, filesPage, storage>>

\* Two DELETE requests to /api/gcp handled at the same time: the awaits of
\* their runs interleave in any order.
RaceNext ==
  \E i \in Requests :
    \/ GcpDeleteArrives(i)
    \/ GcpDeleteProbes(i)
    \/ GcpDeleteDeletes(i)

SpecRace == Init /\ [][RaceNext]_vars

\* ------------------------------------------------------------ FileStorage
\* The record saveFile builds for the n-th file saved: the id is made of the
\* clock and a random suffix, and is taken to differ from every earlier id.
StoredFile(n, file, provider, t) ==
  [id |-> n, name |-> file.name, size |-> file.size, type |-> file.type,
   provider |-> provider, uploadDate |-> t]

\* A variant of saveFile that adds the record at the end (push).
saveFilePushing(files, newFile, written) ==
  IF written THEN Append(files, newFile) ELSE files

\* FileStorage.saveFile, the list it leaves in localStorage: files.unshift(newFile)
\* and setItem; when setItem throws, the catch block logs and the stored list
\* stays as it was.
saveFile(files, newFile, written) ==
  IF written THEN <<newFile>> \o files ELSE files

\* files.findIndex(f => f.id === fileId): 0 stands for -1.
findIndex(files, fileId) ==
  IF \E i \in 1 .. Len(files) : files[i].id = fileId
  THEN CHOOSE i \in 1 .. Len(files) :
         files[i].id = fileId /\ \A j \in 1 .. i - 1 : files[j].id # fileId
  ELSE 0

\* files.splice(fileIndex, 1)
splice(files, fileIndex) ==
  SubSeq(files, 1, fileIndex - 1) \o SubSeq(files, fileIndex + 1, Len(files))

\* FileStorage.deleteFile: the list it leaves in localStorage and what it
\* returns; when setItem throws, the catch block returns false.
deleteFile(files, fileId, written) ==
  LET fileIndex == findIndex(files, fileId)
  IN IF fileIndex = 0 THEN [files |-> files, returned |-> FALSE]
     ELSE IF ~written THEN [files |-> files, returned |-> FALSE]
     ELSE [files |-> splice(files, fileIndex), returned |-> TRUE]

\* A call of FileStorage.saveFile(file, provider).
FileStorageSave ==
  /\ storage.saved < MaxSaved
  /\ \E file \in { f \in Picks : startsWithImage(f.type) }, provider \in StoredProviders,
        written \in BOOLEAN :
       LET newFile == StoredFile(storage.saved + 1, file, provider, now)
       IN storage' = [files |-> saveFile(storage.files, newFile, written),
                      saved |-> storage.saved + 1,
                      call |-> [method |-> "saveFile", id |-> newFile.id,
                                record |-> newFile, written |-> written,
                                returned |-> TRUE, before |-> storage.files]]
  /\ UNCHANGED <<backend, uploader, filesPage, inFlight>>

\* A call of FileStorage.deleteFile(fileId), with an id that was given out or
\* one that never was.
FileStorageDelete ==
  /\ \E fileId \in 1 .. MaxSaved + 1, written \in BOOLEAN :
       LET done == deleteFile(storage.files, fileId, written)
       IN storage' = [storage EXCEPT
                        !.files = done.files,
                        !.call = [method |-> "deleteFile", id |-> fileId,
                                  record |-> NoStoredFile,
                                  written |-> written /\ findIndex(storage.files, fileId) # 0,
                                  returned |-> done.returned, before |-> storage.files]]
  /\ UNCHANGED <<backend, uploader, filesPage, inFlight>>

\* The callers of FileStorage, and the clock.
StorageNext ==
  \/ Tick
  \/ FileStorageSave
  \/ FileStorageDelete

\* FileStorage runs in the browser: the backend's environment plays no part.
StorageInit == Init /\ env = EnvVars

SpecStorage == StorageInit /\ [][StorageNext]_vars

\* ================================================================ properties
\* Vocabulary of the properties.  Everything below speaks of the request handled
\* last (req), its response (resp), the SDK calls its handler made (calls), and of
\* the histories of grants (log) and redemptions (redeemed).
UploadModules == {"aws-post", "azure-post", "gcp-post"}
DownloadModules == {"aws-get", "azure-get", "gcp-get"}
DeleteModules == {"aws-delete", "azure-delete", "gcp-delete"}
IssuanceModules == UploadModules \cup DownloadModules \cup DeleteModules

\* Module m started with every environment variable it insists on.
Usable(m) == validateEnv(m) \subseteq env

\* Every variable some route module of provider p insists on.
RequiredInputs(p) == UNION { validateEnv(m) : m \in { n \in Modules : ProviderOf(n) = p } }

\* The body of the request parsed as a JSON object.
JsonBody == req.body.json

\* The body names a file: fileName is present and not empty.
NamesFile == "fileName" \in req.body.has /\ req.body.fileName # ""

\* The upload fields pass the checks the upload contract names.
AllowedUpload ==
  /\ "fileType" \in req.body.has
  /\ req.body.fileType \in allowedTypes
  /\ req.body.fileSize <= maxSize

\* A request that passes validation for its operation.
ValidRequest == JsonBody /\ NamesFile /\ (req.module \in UploadModules => AllowedUpload)

\* The fixed lifetime of the operation of module m, in seconds.
Lifetime(m) ==
  IF m \in UploadModules THEN 3600 ELSE IF m \in DownloadModules THEN 900 ELSE 300

\* The signing functions of the three SDKs.
SigningApis == {"getSignedUrl", "generateBlobSASQueryParameters"}

\* The lifetime a signing call asks for, in milliseconds: the expiresIn option
\* of the AWS presigner; for Azure and GCP the distance from the clock value the
\* handler read to the expiry instant it passed.
RequestedMillis(c) ==
  IF c.provider = "aws" THEN c.expiresIn * 1000 ELSE c.expires - readAt.expiry

\* -------------------------------------------------------------------- C1
\* C1 (as stated): for every provider and every issuance operation, a request
\* whose fileName is absent or empty is answered 400 and no SDK call is made.
C1_MissingFileNameAlways400 ==
  (req.module \in IssuanceModules /\ ~NamesFile) => (resp.status = 400 /\ calls = << >>)

\* C1 (amended): on an issuance endpoint whose module is usable, a request whose
\* body parses as a JSON object with fileName absent or empty is answered 400
\* with an `error` field only, and no SDK call is made.
C1_MissingFileName400WhenUsable ==
  (req.module \in IssuanceModules /\ Usable(req.module) /\ JsonBody /\ ~NamesFile)
    => (resp.status = 400 /\ resp.fields = {"error"} /\ calls = << >>)

\* A usable download or delete endpoint has answered 400 to a body whose fileName
\* is present and empty.
C1_Witness ==
  /\ req.module \in IssuanceModules \ UploadModules
  /\ Usable(req.module)
  /\ JsonBody
  /\ "fileName" \in req.body.has
  /\ req.body.fileName = ""
  /\ resp.status = 400
  /\ calls = << >>

\* -------------------------------------------------------------------- C2
\* C2 (as stated): on every provider's upload issuance, a declared fileType
\* outside the allowed image types, or a declared fileSize above 10 MiB, is
\* answered 400 and no signing call is made.
C2_UploadTypeAndSizeRejected ==
  ( /\ req.module \in UploadModules
    /\ Usable(req.module)
    /\ JsonBody
    /\ NamesFile
    /\ "fileType" \in req.body.has
    /\ (req.body.fileType \notin allowedTypes \/ req.body.fileSize > maxSize) )
    => (resp.status = 400 /\ calls = << >>)

\* -------------------------------------------------------------------- C3
\* C3 (as stated): if a required environment input of a provider is missing at
\* startup, every request to that provider's endpoints is answered 500 and no
\* call reaches the SDK.
C3_MissingInputDisablesProvider ==
  (req.module \in Modules /\ ~(RequiredInputs(ProviderOf(req.module)) \subseteq env))
    => (resp.status = 500 /\ calls = << >>)

\* -------------------------------------------------------------------- C4
\* The "not initialized" message of module m.
NotInitialized(m) ==
  CASE ProviderOf(m) = "aws" -> AwsNotInitialized
    [] m = "azure" -> AzureRouteNotInitialized
    [] ProviderOf(m) = "azure" -> AzureNotInitialized
    [] m = "gcp" -> GcpRouteNotInitialized
    [] OTHER -> GcpNotInitialized

C5_SuccessCarriesFixedLifetime ==
  (req.module \in IssuanceModules /\ Usable(req.module) /\ ValidRequest /\ req.ok)
    => /\ resp.status = 200
       /\ "presignedUrl" \in resp.fields
       /\ resp.presignedUrl # NoUrl
       /\ resp.expiresIn = Lifetime(req.module)
       /\ Len(calls) = 1
       /\ calls[1].api \in SigningApis
       /\ RequestedMillis(calls[1]) = Lifetime(req.module) * 1000
       /\ (calls[1].provider = "azure" =>
             readAt.stamp <= calls[1].startsOn /\ calls[1].startsOn <= readAt.expiry)

\* An Azure issuance has succeeded with the clock moving between the read of
\* startsOn and the read of expiresOn.
C5_Witness ==
  /\ req.module \in AzureModules \cap IssuanceModules
  /\ ValidRequest
  /\ req.ok
  /\ resp.status = 200
  /\ Len(calls) = 1
  /\ calls[1].startsOn < readAt.expiry

\* -------------------------------------------------------------------- C6
\* C6 (as stated): a delete-issuance request for a fileName whose object does
\* not exist at the provider is answered with a not-found error.
C6_MissingObjectNotFound ==
  ( /\ req.module \in DeleteModules
    /\ Usable(req.module)
    /\ JsonBody
    /\ NamesFile
    /\ req.ok
    /\ ~Exists(objects[ProviderOf(req.module)], req.body.fileName) )
    => resp.status = 404

\* C6 (amended): delete issuance never asks the provider whether the object
\* exists: for a fileName whose object does not exist, a usable module whose
\* signing call succeeds answers 200 with a presignedUrl for that very key, and
\* its only SDK call is the signing call.
C6_MissingObjectStillGranted ==
  ( /\ req.module \in DeleteModules
    /\ Usable(req.module)
    /\ JsonBody
    /\ NamesFile
    /\ req.ok
    /\ ~Exists(objects[ProviderOf(req.module)], req.body.fileName) )
    => /\ resp.status = 200
       /\ "presignedUrl" \in resp.fields
       /\ resp.fileName = req.body.fileName
       /\ resp.presignedUrl.call.key = req.body.fileName
       /\ Len(calls) = 1
       /\ calls[1].api \in SigningApis

\* A delete grant has been issued for "missing.png", which no provider holds.
C6_Witness ==
  /\ req.module \in DeleteModules
  /\ req.body.fileName = "missing.png"
  /\ ~Exists(objects[ProviderOf(req.module)], "missing.png")
  /\ resp.status = 200
  /\ resp.presignedUrl.call.key = "missing.png"

\* -------------------------------------------------------------------- C7
\* C7 (as stated): every 5xx response of an issuance endpoint has an `error`
\* field and a `details` field.
C7_ServerErrorHasDetails ==
  (req.module \in IssuanceModules /\ resp.status >= 500)
    => {"error", "details"} \subseteq resp.fields

\* C7 (amended): a 5xx response of an issuance endpoint always has an `error`
\* field; it has a non-empty `details` field exactly when the module is usable
\* (the body could not be parsed or the signing call failed); the "not
\* initialized" answer of an unusable module carries `error` alone.
C7_ServerErrorShape ==
  (req.module \in IssuanceModules /\ resp.status >= 500)
    => /\ resp.status = 500
       /\ resp.error # ""
       /\ IF Usable(req.module)
          THEN resp.fields = {"error", "details"} /\ resp.details # ""
          ELSE resp.fields = {"error"}

\* A usable endpoint has answered 500 because its signing call failed.
C7_Witness ==
  /\ req.module \in IssuanceModules
  /\ Usable(req.module)
  /\ ValidRequest
  /\ ~req.ok
  /\ Len(calls) = 1
  /\ resp.status = 500
  /\ resp.fields = {"error", "details"}

\* -------------------------------------------------------------------- C8
\* C8: after a successful upload issuance, the fileName of the response is the
\* millisecond timestamp the handler read, a dash, and the client's fileName,
\* and it is the key the signing call was asked to sign and the URL was minted
\* for.
C8_ReturnedKeyIsSignedKey ==
  (req.module \in UploadModules /\ resp.status = 200)
    => /\ resp.fileName = ToString(readAt.stamp) \o "-" \o req.body.fileName
       /\ readAt.stamp <= now
       /\ Len(calls) = 1
       /\ calls[1].key = resp.fileName
       /\ resp.presignedUrl.call.key = resp.fileName

\* An upload grant has been issued at clock value 1 for "cat.jpg".
C8_Witness ==
  /\ req.module \in UploadModules
  /\ resp.status = 200
  /\ req.body.fileName = "cat.jpg"
  /\ readAt.stamp = 1
  /\ resp.fileName = "1-cat.jpg"

\* -------------------------------------------------------------------- C9
\* Grants i and j are two upload grants for the same client file name.
SameUpload(i, j) ==
  /\ i # j
  /\ log[i].module \in UploadModules
  /\ log[j].module \in UploadModules
  /\ log[i].clientName = log[j].clientName

SameGrantee(i, j) ==
  /\ i # j
  /\ log[i].module = log[j].module
  /\ log[i].key = log[j].key

SameReads(i, j) ==
  /\ log[i].url.date = log[j].url.date
  /\ log[i].expiry = log[j].expiry

\* The redemption r met what its operation needs at the provider: an upload
\* needs nothing, a download needs the object, a delete needs the object except
\* on S3.
MetAtProvider(r) ==
  \/ log[r.grant].module \in UploadModules
  \/ r.existed
  \/ log[r.grant].module = "aws-delete"

\* Issuing a grant leaves the provider's objects, the redemptions and the
\* grants issued before as they were.
IssuanceTouchesNothing ==
  (log' # log) =>
    /\ objects' = objects
    /\ redeemed' = redeemed
    /\ Len(log') = Len(log) + 1
    /\ SubSeq(log', 1, Len(log)) = log

Answers(r, objs, t) ==
  LET later == { d \in [t1 : t .. t + MaxDrift, t2 : t .. t + MaxDrift] : d.t1 <= d.t2 }
      fails == { f \in 0 .. 4 : (f = 0) = r.ok }
      answers ==
         CASE r.module = "aws-post" -> {AwsPostPOST(r.body, t, r.ok)}
       [] r.module = "aws-get" -> {AwsGetPOST(r.body, t, r.ok)}
       [] r.module = "aws-delete" -> {AwsDeletePOST(r.body, t, r.ok)}
       [] r.module = "azure-post" ->
            { AzurePostPOST(r.body, t, d.t1, d.t2, r.ok) : d \in later }
       [] r.module = "azure-get" ->
            { AzureGetPOST(r.body, t, d.t1, d.t2, r.ok) : d \in later }
       [] r.module = "azure-delete" ->
            { AzureDeletePOST(r.body, t, d.t1, d.t2, r.ok) : d \in later }
       [] r.module = "gcp-post" -> {GcpPostPOST(r.body, t, r.ok)}
       [] r.module = "gcp-get" -> {GcpGetPOST(r.body, t, r.ok)}
       [] r.module = "gcp-delete" -> {GcpDeletePOST(r.body, t, r.ok)}
       [] r.module = "aws-response" -> {AwsResponsePOST(r.body, t)}
       [] r.module = "gcp-response" -> {GcpResponsePOST(r.body, t)}
       [] r.module = "aws-list" -> {AwsListGET(objs, r.ok, t)}
       [] r.module = "azure-list" -> {AzureListGET(objs, r.ok, t)}
       [] r.module = "gcp-list" -> {GcpListGET(objs, r.ok, t)}
       [] r.module = "aws" /\ r.method = "POST" -> {AwsRoutePOST(r.file, objs, r.ok, t)}
       [] r.module = "aws" /\ r.method = "GET" -> {AwsRouteGET(r.key, objs, r.ok, t)}
       [] r.module = "aws" /\ r.method = "DELETE" -> {AwsRouteDELETE(r.key, objs, r.ok, t)}
       [] r.module = "azure" /\ r.method = "POST" -> {AzureRoutePOST(r.file, objs, r.ok, t)}
       [] r.module = "azure" /\ r.method = "GET" -> {AzureRouteGET(r.key, objs, r.ok, t)}
       [] r.module = "azure" /\ r.method = "DELETE" ->
            {AzureRouteDELETE(r.key, objs, r.ok, t)}
       [] r.module = "gcp" /\ r.method = "POST" -> {GcpRoutePOST(r.file, objs, r.ok, t)}
       [] r.module = "gcp" /\ r.method = "GET" ->
            { GcpRouteGET(r.key, objs, f, t) : f \in fails }
       [] r.module = "gcp" /\ r.method = "DELETE" ->
            { GcpRouteDELETE(r.key, objs, f, t) : f \in fails }
       [] OTHER -> {Out(NoResp, << >>, FALSE, t, t)}
  IN IF r.module \in Providers \/ r.module = ""
     THEN answers
     ELSE { WithCors(r.origin, out) : out \in answers }

\* The response and the SDK calls on record are what the handler of the request
\* on record returns against the provider contents objs.
Replayed(objs) ==
  \E out \in Answers(req, objs, readAt.stamp) : resp = out.resp /\ calls = out.calls

Authorised(c) == Operation([c EXCEPT !.api = "fetch"])

\* The operation the issuance endpoint of module m hands out grants for.
EndpointOperation(m) ==
  IF m \in UploadModules THEN "put" ELSE IF m \in DownloadModules THEN "get" ELSE "delete"

\* C12: a successful issuance has made exactly one SDK call, a signing call at
\* the endpoint's provider; the URL returned is the one that call signed, it
\* authorises the endpoint's operation (upload: put, download: get, delete:
\* delete) and names exactly the object key returned in the response.
C12_GrantIsOneOperationOnReturnedKey ==
  (req.module \in IssuanceModules /\ resp.status = 200)
    => /\ Len(calls) = 1
       /\ calls[1].api \in SigningApis
       /\ calls[1].provider = ProviderOf(req.module)
       /\ resp.presignedUrl.call = calls[1]
       /\ Authorised(calls[1]) = EndpointOperation(req.module)
       /\ calls[1].key = resp.fileName
       /\ "fileName" \in resp.fields /\ "presignedUrl" \in resp.fields

\* A download grant has been issued by the GCP endpoint.
C12_Witness ==
  /\ req.module = "gcp-get"
  /\ resp.status = 200
  /\ resp.presignedUrl.call.action = "read"
  /\ resp.fileName = "cat.jpg"


\* -------------------------------------------------------------------- C13
\* The last SDK call of the run on record.
LastCall == calls[Len(calls)]

\* The run on record made an SDK call that failed: the SDK threw (network,
\* permission), or the service turned the operation down (a missing object).  A
\* run that did not end with success left the provider's contents as they were.
ProviderCallFailed ==
  /\ calls # << >>
  /\ \/ ~req.ok
     \/ resp.status # 200 /\ ~Accepts(objects[ProviderOf(req.module)], LastCall)

\* C13 (as stated): a run in which a provider call failed made exactly one
\* provider call and answered 500 with the original error message as details.
C13_FailedCallIsOnlyCall ==
  ProviderCallFailed
    => Len(calls) = 1 /\ resp.status = 500 /\ resp.details = SdkError

\* C13 (amended): a run in which a provider call failed made that call once, as
\* its last call, and answered 500 with fields error and details, details being
\* the original error message; the failing call is the only call of the run
\* except in the direct GCP routes, where the calls that succeeded before it
\* (the existence probe first) are on record too, none of them twice.
C13_FailedCallEndsRun ==
  ProviderCallFailed
    => /\ resp.status = 500
       /\ resp.fields = {"error", "details"}
       /\ resp.details = SdkError
       /\ \A i, j \in 1 .. Len(calls) : calls[i] = calls[j] => i = j
       /\ \/ Len(calls) = 1
          \/ req.module = "gcp" /\ req.method \in {"GET", "DELETE"}
               /\ calls[1].action = "exists"

\* The direct GCP delete failed at the provider after a successful probe.
C13_Witness ==
  /\ req.module = "gcp" /\ req.method = "DELETE"
  /\ ~req.ok
  /\ Len(calls) = 2
  /\ LastCall.action = "delete"
  /\ resp.status = 500


\* -------------------------------------------------------------------- C14
\* The request on record asked for a listing: a list endpoint, or a direct
\* route's GET without a key.
ListRequest ==
  \/ req.module \in {"aws-list", "azure-list", "gcp-list"}
  \/ req.module \in Providers /\ req.method = "GET" /\ req.key = ""

\* C14 (as stated): a successful listing has exactly one entry per object the
\* provider holds, in the provider's order, each entry with exactly the fields
\* name, size and lastModified of that object.
C14_ListingIsUniform ==
  (ListRequest /\ resp.status = 200)
    => /\ resp.fields = {"files"}
       /\ Len(resp.files) = Len(objects[ProviderOf(req.module)])
       /\ \A i \in 1 .. Len(resp.files) :
            resp.files[i] = ListEntry(objects[ProviderOf(req.module)][i])


\* -------------------------------------------------------------------- C16
\* The step handles a direct GCP download or delete of a key under which the
\* bucket holds no object, in a usable module, and the existence probe answers.
AbsentKeyProbed ==
  /\ req'.module = "gcp"
  /\ req'.method \in {"GET", "DELETE"}
  /\ req'.key # ""
  /\ client["gcp"] /\ bucketName["gcp"]
  /\ ~Exists(objects["gcp"], req'.key)
  /\ req'.ok

\* C16: in the direct GCP routes, a download or delete of a key whose object is
\* absent is answered 404 'File not found'; the existence probe is the only SDK
\* call of the run (no delete, no signing, no download, no metadata read) and
\* the bucket is left as it was.
C16_AbsentKeyIsNotFound ==
  [][ AbsentKeyProbed
        => /\ resp'.status = 404
           /\ resp'.fields = {"error"}
           /\ resp'.error = "File not found"
           /\ Len(calls') = 1
           /\ calls'[1].action = "exists" /\ calls'[1].key = req'.key
           /\ objects' = objects ]_vars

\* The direct GCP delete of "missing.png" was answered 404.
C16_Witness ==
  /\ req.module = "gcp" /\ req.method = "DELETE"
  /\ req.key = "missing.png"
  /\ ~Exists(objects["gcp"], "missing.png")
  /\ resp.status = 404


\* -------------------------------------------------------------------- C17
\* C17: every run of a backend handler, whatever the request and whichever SDK
\* call fails, ends with a response: its status is 200, 400, 404 or 500, and an
\* error inside the handler (a body that does not parse, a missing environment
\* variable, an SDK exception) is answered 500 rather than leaving the run
\* without a response.
C17_EveryRunEndsWithAResponse ==
  req.module # ""
    => /\ resp # NoResp
       /\ resp.status \in {200, 400, 404, 500}
       /\ (resp.status # 200 => "error" \in resp.fields)
       /\ (resp.details # "" => resp.status = 500)

\* The exception req.formData() threw inside the direct AWS upload handler was
\* answered 500.
C17_Witness ==
  /\ req.module = "aws" /\ req.method = "POST"
  /\ ~req.file.form
  /\ resp.status = 500
  /\ resp.details = ParseError


\* -------------------------------------------------------------------- C18
\* C18: a response, preflight or normal, carries Access-Control-Allow-Origin
\* only when the request's Origin header is in the allow-list, and the header
\* then equals that Origin; it is not set for a request without Origin or with
\* an Origin outside the list.
C18_AllowOriginOnlyForListedOrigin ==
  /\ resp.headers.allowOrigin # ""
       => req.origin \in allowedOrigins /\ resp.headers.allowOrigin = req.origin
  /\ \A m \in {"OPTIONS", "GET", "POST"} : \A o \in Origins \ allowedOrigins :
       corsMiddleware(m, o).headers.allowOrigin = ""

\* A POST from an allow-listed origin was answered with that origin as
\* Access-Control-Allow-Origin.
C18_Witness ==
  /\ req.method = "POST"
  /\ req.origin = "http://localhost:3000"
  /\ resp.status = 200
  /\ resp.headers.allowOrigin = "http://localhost:3000"

\* ---------------------------------------------------------------- C20
\* The fetches of one upload, in the order the page sends them.
UploadSteps == <<"issuance", "transfer", "notice">>

\* C20: the requests of an upload run are sent in the order issuance, PUT on
\* the returned URL, completion notice; each is sent only after the one before
\* it returned success, the PUT goes to a URL the issuance returned, and a
\* request that fails is the last one of its run: the run is over (no request
\* pending, no upload in progress) and nothing follows it.
C20_UploadStepsInOrder ==
  LET sent == uploader.sent
  IN /\ Len(sent) <= Len(UploadSteps)
     /\ \A i \in 1 .. Len(sent) :
          /\ sent[i].call = UploadSteps[i]
          /\ i < Len(sent) => sent[i].outcome = "ok"
          /\ sent[i].outcome \in {"error", "rejected"} =>
               i = Len(sent) /\ uploader.step = "idle" /\ ~uploader.isUploading
          /\ sent[i].outcome = "pending" => i = Len(sent) /\ uploader.step = sent[i].call
     /\ uploader.step \in {"transfer", "notice"} => uploader.url # NoUrl
     /\ uploader.step # "idle" => Len(sent) > 0 /\ sent[Len(sent)].outcome = "pending"

\* A run whose issuance failed with an answer of the backend and ended there,
\* after an earlier upload changed the provider's container.
C20_Witness ==
  /\ Len(uploader.sent) = 1
  /\ uploader.sent[1] = [call |-> "issuance", outcome |-> "error"]
  /\ uploader.step = "idle"
  /\ req.module \in {"aws-post", "azure-post", "gcp-post"}
  /\ resp.status # 200
  /\ \E p \in Providers : Len(objects[p]) > 1

\* ---------------------------------------------------------------- C15
\* C15: once the PUT of an upload run has returned success, the run reports
\* the upload as successful when it ends, whatever became of the completion
\* notice (answered with success, answered with an error status, or its fetch
\* rejected).
C15_TransferredIsReportedSuccessful ==
  ( /\ Len(uploader.sent) >= 2
    /\ uploader.sent[2] = [call |-> "transfer", outcome |-> "ok"]
    /\ uploader.step = "idle" )
  => uploader.reported = "success"

\* The same for the notices that were answered: an error status of the notice
\* (the 404 of the path without a route, a 400 or 500 of a notice handler) does
\* not change the report.
C15_AnsweredNoticeIsIgnored ==
  ( /\ Len(uploader.sent) = 3
    /\ uploader.sent[3].outcome \in {"ok", "error"}
    /\ uploader.step = "idle" )
  => uploader.reported = "success"

\* An upload to Azure that ended after its notice was answered 404.
C15_Witness404 ==
  /\ Len(uploader.sent) = 3
  /\ uploader.sent[3] = [call |-> "notice", outcome |-> "error"]
  /\ uploader.step = "idle"
  /\ req.module = "azure-response"
  /\ resp.status = 404

\* ---------------------------------------------------------------- C19
\* C19: a call of the files page to the backend that failed (list, delete
\* issuance, view issuance, preview issuance) was shown to the user as a toast,
\* and the toast carries the error message of the backend's answer.
C19_FailedCallShowsBackendError ==
  filesPage.last.failed =>
    /\ filesPage.last.toast # ""
    /\ filesPage.last.error # "" => filesPage.last.toast = filesPage.last.error

\* ---------------------------------------------------------------- C21
\* The file name the client gave with the upload request of the last run: the
\* name of the file of the multipart form, or the fileName of the JSON body.
ClientName == IF req.module \in Providers THEN req.file.name ELSE req.body.fileName

\* C21: every upload run of the backend that succeeds, presigned issuance or
\* direct multipart upload, names one object key, and that key is the client's
\* file name prefixed with the millisecond the handler read from the clock, so
\* that uploads of one file name at different times go to different keys.
C21_UploadKeyIsStamped ==
  ( /\ req.method = "POST"
    /\ req.module \in UploadModules \cup Providers
    /\ resp.status = 200 )
  => /\ calls # << >>
     /\ \A i \in 1 .. Len(calls) : calls[i].key = uniqueFileName(readAt.stamp, ClientName)

\* ---------------------------------------------------------------- C22
\* C22: the response of every handler run that is not a preflight, of a
\* presigned, list, completion-notice or direct route, carries
\* Access-Control-Allow-Credentials, and carries Access-Control-Allow-Origin
\* with the request's Origin when that Origin is in the allow-list.
C22_EveryResponseCarriesCors ==
  (req.module # "" /\ req.method # "OPTIONS")
  => /\ resp.headers.allowCredentials = "true"
     /\ req.origin \in allowedOrigins => resp.headers.allowOrigin = req.origin

\* ---------------------------------------------------------------- C23
\* The stored list holds the records in the order they were saved, newest
\* first: ids were given out in increasing order and the clock does not go back.
NewestFirst(files) ==
  \A i, j \in 1 .. Len(files) :
    i < j => files[i].id > files[j].id /\ files[i].uploadDate >= files[j].uploadDate

\* The list `before` without the record of id fileId, the others in order.
Without(before, fileId) == SelectSeq(before, LAMBDA f : f.id # fileId)

Known(before, fileId) == \E i \in 1 .. Len(before) : before[i].id = fileId

\* C23 (as stated): after any sequence of saveFile and deleteFile calls the
\* stored list is ordered newest-saved first; saveFile has put the new record at
\* the head and left the others in order, deleteFile has removed exactly the
\* record with the given id and left the others in order, and deleteFile of an
\* unknown id has returned false and left the list unchanged.
C23_CallsKeepNewestFirst ==
  LET c == storage.call
  IN /\ NewestFirst(storage.files)
     /\ c.method = "saveFile" => storage.files = <<c.record>> \o c.before
     /\ (c.method = "deleteFile" /\ Known(c.before, c.id))
          => storage.files = Without(c.before, c.id) /\ c.returned
     /\ (c.method = "deleteFile" /\ ~Known(c.before, c.id))
          => storage.files = c.before /\ ~c.returned

\* C23 (amended): the same for the calls whose write to localStorage
\* succeeds; a call whose setItem throws leaves the stored list unchanged,
\* saveFile still returning the record and deleteFile returning false.
C23_WrittenCallsKeepNewestFirst ==
  LET c == storage.call
  IN /\ NewestFirst(storage.files)
     /\ (c.method = "saveFile" /\ c.written) => storage.files = <<c.record>> \o c.before
     /\ (c.method = "saveFile" /\ ~c.written) => storage.files = c.before
     /\ (c.method = "deleteFile" /\ Known(c.before, c.id) /\ c.written)
          => storage.files = Without(c.before, c.id) /\ c.returned
     /\ (c.method = "deleteFile" /\ (~Known(c.before, c.id) \/ ~c.written))
          => storage.files = c.before /\ ~c.returned

\* A record deleted from the middle of a list of three, the other two staying
\* in order.
C23_Witness ==
  /\ storage.call.method = "deleteFile"
  /\ storage.call.returned
  /\ Len(storage.call.before) = 3
  /\ storage.call.before[2].id = storage.call.id
  /\ Len(storage.files) = 2

\* ---------------------------------------------------------------- C24
\* C24: the route modules of one provider agree on usability: in every
\* environment either all of them have their client (direct, presigned
\* issuance and list modules alike), or none has and each answers with its
\* not-initialized error.
C24_ModulesAgreeOnUsability ==
  \A m, n \in Modules : ProviderOf(m) = ProviderOf(n) => (client[m] <=> client[n])

\* ---------------------------------------------------------------- C25
\* C25: on the files page, whenever no list request is in flight, the list and
\* the counts on display are those that were returned for the provider that
\* is selected now; the answer for a provider selected earlier, arriving late,
\* has not replaced them.
C25_DisplayedListIsOfSelectedProvider ==
  filesPage.listing = {} =>
    /\ filesPage.filesOf = filesPage.selectedProvider
    /\ filesPage.totalFiles = Len(filesPage.files)

\* ---------------------------------------------------------------- C26
\* C26: on the files page, while a delete of a file is in flight deletingFile
\* is the name of that file (its delete buttons are disabled, no second delete
\* of it can be started), whatever deletes of other files are started or
\* finish in the meantime.
C26_FileInDeletionStaysMarked ==
  \A d \in filesPage.deletes : filesPage.deletingFile = d.fileName

\* ---------------------------------------------------------------- C27
\* C27: the reset that an upload schedules three seconds after its success
\* clears only the selection and the result of that upload: when the timer
\* fires, a file that was selected after the upload finished is not cleared.
C27_TimerClearsOnlyItsUpload ==
  [][ (uploader'.timers < uploader.timers /\ uploader.selectedFile # NoPick)
        => ~uploader.pickedLater ]_vars

\* ---------------------------------------------------------------- C28
\* The statuses of the two runs.
RaceStatuses == { inFlight[i].resp.status : i \in Requests }

\* The two runs are over, both were for the key of the object the bucket held
\* when they arrived, and the module is usable.
BothDeletedStoredKey ==
  /\ \A i \in Requests : inFlight[i].pc = "done" /\ inFlight[i].key = "cat.jpg"
  /\ client["gcp"] /\ bucketName["gcp"]

\* C28: two GCP direct DELETE requests for the same existing key, handled at
\* the same time, end with one 200 'Delete successful' and one 404 'File not
\* found', and neither with a 500, however the existence probes and the
\* deletes of the two runs interleave.
C28_ConcurrentDeletesEnd200And404 ==
  BothDeletedStoredKey => RaceStatuses = {200, 404}

\* C29: on the files page, after any sequence of list loads, deletes and page
\* changes, totalPages is the number of files divided by 20 and rounded up,
\* currentPage lies between 1 and max(1, totalPages), the displayed page holds
\* at most 20 files, which are the files from (currentPage-1)*20 up to but not
\* including currentPage*20, and every list load that settles leaves
\* currentPage at 1.
PagesOf(n) == IF n % filesPerPage = 0 THEN n \div filesPerPage ELSE n \div filesPerPage + 1

PageIsConsistent(f) ==
  LET skipped == (f.currentPage - 1) * filesPerPage
      rest == Len(f.files) - skipped
      page == paginatedFiles(f)
  IN /\ f.totalPages = PagesOf(Len(f.files))
     /\ f.currentPage >= 1
     /\ f.currentPage <= (IF f.totalPages > 1 THEN f.totalPages ELSE 1)
     /\ Len(page) <= filesPerPage
     /\ Len(page) = (IF rest > filesPerPage THEN filesPerPage ELSE IF rest > 0 THEN rest ELSE 0)
     /\ \A i \in 1 .. Len(page) : page[i] = f.files[skipped + i]

ListLoadSettled == filesPage'.listing # filesPage.listing /\ filesPage'.listing \subseteq filesPage.listing

C29_PagingIsConsistent ==
  /\ []PageIsConsistent(filesPage)
  /\ [][ListLoadSettled => filesPage'.currentPage = 1]_vars

\* A page after the first is on display, of a list that a delete has made
\* shorter.
C29_Witness ==
  /\ filesPage.currentPage > 1
  /\ ~filesPage.loading
  /\ filesPage.filesOf = "aws-s3"
  /\ Len(filesPage.files) < MaxFiles
  /\ Len(paginatedFiles(filesPage)) = filesPerPage

\* C30: provided every network call eventually settles, every upload started
\* on the upload page eventually ends with isUploading false and an upload
\* result (success or failure) set, and every delete started on the files
\* page eventually ends with deletingFile reset to null.
DeleteInFlight(fileName, provider) ==
  \E d \in filesPage.deletes : d.fileName = fileName /\ d.provider = provider

UploadEnds == uploader.isUploading /\ ~uploader'.isUploading

DeleteEnds ==
  \E d \in filesPage.deletes :
    ~DeleteInFlight(d.fileName, d.provider)'

C30_StartedWorkEnds ==
  /\ uploader.isUploading ~> (~uploader.isUploading /\ uploader.uploadResponse.shown)
  /\ [][UploadEnds => uploader'.uploadResponse.shown /\ uploader'.reported # ""]_vars
  /\ \A provider \in CloudProviders : \A fileName \in {"cat.jpg"} :
       DeleteInFlight(fileName, provider) ~>
         (~DeleteInFlight(fileName, provider) /\ filesPage.deletingFile = "")
  /\ [][DeleteEnds => filesPage'.deletingFile = ""]_vars

\* An upload has ended in failure after its PUT was sent.
C30_Witness ==
  /\ ~uploader.isUploading
  /\ uploader.reported = "failure"
  /\ uploader.uploadResponse.shown
  /\ Len(uploader.sent) = 2

\* A delete has ended in failure and none is in flight.
C30_DeleteEnded ==
  /\ filesPage.deletes = {}
  /\ filesPage.deletingFile = ""
  /\ filesPage.last.call = "delete"
  /\ filesPage.last.failed

====
